---- MODULE Spec2Model ----
(***************************************************************************)
(* A model of Pysheet (src/pysheet.py): the row dictionary, the header     *)
(* row, the ID-column pointer and the operations that mutate them, and the *)
(* cell merge policy.                                                      *)
(*                                                                         *)
(* A Python string is a sequence of one-character strings; a Python int is *)
(* the sequence <<NUM>> \o its decimal form, so that every cell is a       *)
(* sequence and str(), lower(), strip(), replace(), split() and int() are  *)
(* computed the way Python computes them.  Column indexes are 0-based as   *)
(* in the source (row[i + 1] is the cell at index i).                      *)
(***************************************************************************)
EXTENDS Integers, Sequences, FiniteSets, TLC

VARIABLES
  rows,          \* Pysheet.rows: key -> row (a sequence of cells)
  idColumn,      \* Pysheet.idColumn
  MIN_LINE_LEN,  \* Pysheet.MIN_LINE_LEN (load decrements the instance's copy)
  calls,         \* the number of operations called since construction
  op,            \* the last operation called and its arguments
  before,        \* the operation called before the last one, and what it raised
  pre,           \* rows and idColumn when the last operation was called
  raised,        \* "" when the last operation returned, else the exception it raised
  ret,           \* what the last operation returned, for the operations that query
  cellA,         \* mergedValue: the cell merged into (the running value of a chain)
  cellB,         \* mergedValue: the cell merged last
  cellMode,      \* mergedValue: the mode used last
  cell0,         \* mergedValue: the value a chain of merges started from
  cellRaised,    \* mergedValue: "" or the exception the last merge raised
  merges,        \* mergedValue: the modes and merged cells of the chain so far
  lockFile,      \* main: the lock file (whether it exists, its text, whether it is stale)
  pc,            \* main: where each process run with --lockFile is
  counter,       \* main: each process's counter of the time it waited
  mycsv,         \* main: the cells of the sheet each process read
  dataFile,      \* the cells in the file the processes read and write
  savedTo        \* main: the path each process saved its sheet to ("" for none yet)

vars == <<rows, idColumn, MIN_LINE_LEN, calls, op, before, pre, raised, ret,
          cellA, cellB, cellMode, cell0, cellRaised, merges,
          lockFile, pc, counter, mycsv, dataFile, savedTo>>

tableVars == <<rows, idColumn, MIN_LINE_LEN, calls, op, before, pre, raised, ret>>
cellVars == <<cellA, cellB, cellMode, cell0, cellRaised, merges>>
lockVars == <<lockFile, pc, counter, mycsv, dataFile, savedTo>>

-----------------------------------------------------------------------------
(* Bounds of the model *)

MaxCalls == 2     \* most operations called on one table after its construction
MaxMerges == 2    \* longest chain of mergedValue calls on one cell
\* the processes run at the same time
NProcs == 2
\* the counter at which a waiting process gives up (180.0 in the source,
\* reached in steps of random() < 1)
timeoutSec == 3

-----------------------------------------------------------------------------
(* Python strings and numbers *)

NUM == "INT"

UpperCase == <<"A","B","C","D","E","F","G","H","I","J","K","L","M",
               "N","O","P","Q","R","S","T","U","V","W","X","Y","Z">>
LowerCase == <<"a","b","c","d","e","f","g","h","i","j","k","l","m",
               "n","o","p","q","r","s","t","u","v","w","x","y","z">>
Digits == <<"0","1","2","3","4","5","6","7","8","9">>

isNumber(x) == x # <<>> /\ x[1] = NUM

\* str(x)
str(x) == IF isNumber(x) THEN Tail(x) ELSE x

lowerChar(c) ==
  IF \E i \in 1..Len(UpperCase) : UpperCase[i] = c
  THEN LowerCase[CHOOSE i \in 1..Len(UpperCase) : UpperCase[i] = c]
  ELSE c

\* s.lower()
lower(s) == [i \in 1..Len(s) |-> lowerChar(s[i])]

isSpace(c) == c \in {" ", "\t", "\n", "\r"}

RECURSIVE lstrip(_)
lstrip(s) == IF s # <<>> /\ isSpace(Head(s)) THEN lstrip(Tail(s)) ELSE s

RECURSIVE rstrip(_)
rstrip(s) ==
  IF s # <<>> /\ isSpace(s[Len(s)]) THEN rstrip(SubSeq(s, 1, Len(s) - 1)) ELSE s

\* s.strip()
strip(s) == rstrip(lstrip(s))

\* s.startswith('__')
isLocked(s) == Len(s) >= 2 /\ s[1] = "_" /\ s[2] = "_"

\* s.replace('__','')
RECURSIVE unlock(_)
unlock(s) ==
  IF Len(s) < 2 THEN s
  ELSE IF s[1] = "_" /\ s[2] = "_" THEN unlock(SubSeq(s, 3, Len(s)))
  ELSE <<s[1]>> \o unlock(Tail(s))

\* s.split(sep) for a one-character sep
RECURSIVE split(_, _)
split(s, sep) ==
  IF \E i \in 1..Len(s) : s[i] = sep
  THEN LET i == CHOOSE i \in 1..Len(s) :
                  s[i] = sep /\ \A j \in 1..(i - 1) : s[j] # sep
       IN <<SubSeq(s, 1, i - 1)>> \o split(SubSeq(s, i + 1, Len(s)), sep)
  ELSE <<s>>

\* s.isdigit()
isdigit(s) ==
  s # <<>> /\ \A i \in 1..Len(s) : \E d \in 1..Len(Digits) : Digits[d] = s[i]

digitValue(c) == (CHOOSE d \in 1..Len(Digits) : Digits[d] = c) - 1

\* int(s) for a string of digits
RECURSIVE int(_)
int(s) ==
  IF s = <<>> THEN 0 ELSE 10 * int(SubSeq(s, 1, Len(s) - 1)) + digitValue(s[Len(s)])

\* "%d" % n for n >= 0
RECURSIVE decimal(_)
decimal(n) ==
  IF n < 10 THEN <<Digits[n + 1]>> ELSE decimal(n \div 10) \o <<Digits[(n % 10) + 1]>>

\* "%d" % n and int(s) with a sign
abs(n) == IF n < 0 THEN -n ELSE n
signOf(s) == IF s # <<>> /\ s[1] = "-" THEN -1 ELSE 1
unsigned(s) == IF s # <<>> /\ s[1] \in {"-", "+"} THEN Tail(s) ELSE s

number(n) == (IF n < 0 THEN <<NUM, "-">> ELSE <<NUM>>) \o decimal(abs(n))
valueOf(x) == signOf(Tail(x)) * int(unsigned(Tail(x)))

\* int(s) for a string s that int() accepts, else x
intOr(s, x) == IF isdigit(unsigned(s)) THEN number(signOf(s) * int(unsigned(s))) ELSE x

\* tryNumber(x): int(x) accepts surrounding whitespace and a sign; the
\* strings of the model carry no decimal point and no exponent, so float(x)
\* never succeeds where int(x) failed.
tryNumber(x) == IF isNumber(x) THEN x ELSE intOr(strip(x), x)

\* the characters of the model in the order of their codes
Ascii == <<" ", "!", "#", "+", "-">> \o Digits \o <<";", "<", "=", ">">>
           \o UpperCase \o <<"_">> \o LowerCase \o <<"~">>
code(c) == CHOOSE i \in 1..Len(Ascii) : Ascii[i] = c

\* a < b for two strings
RECURSIVE lexLess(_, _)
lexLess(a, b) ==
  IF b = <<>> THEN FALSE
  ELSE IF a = <<>> THEN TRUE
  ELSE IF a[1] = b[1] THEN lexLess(Tail(a), Tail(b))
  ELSE code(a[1]) < code(b[1])

\* a < b as Python 2 compares a number or string with a number or string:
\* every number is less than every string
less(a, b) ==
  IF isNumber(a) /\ isNumber(b) THEN valueOf(a) < valueOf(b)
  ELSE IF isNumber(a) THEN TRUE
  ELSE IF isNumber(b) THEN FALSE
  ELSE lexLess(a, b)

\* s.split(sep, 1) for a one-character sep
split1(s, sep) ==
  IF \E i \in 1..Len(s) : s[i] = sep
  THEN LET i == CHOOSE i \in 1..Len(s) :
                  s[i] = sep /\ \A j \in 1..(i - 1) : s[j] # sep
       IN <<SubSeq(s, 1, i - 1), SubSeq(s, i + 1, Len(s))>>
  ELSE <<s>>

\* range(a, b)
range(a, b) == [i \in 1..(IF b > a THEN b - a ELSE 0) |-> a + i - 1]

\* clean(s)
clean(s) == strip(lower(str(s)))

\* sanitize(s)
sanitize(s) == s

\* unique(seq)
RECURSIVE unique(_)
unique(seq) ==
  IF seq = <<>> THEN <<>>
  ELSE LET r == unique(SubSeq(seq, 1, Len(seq) - 1))
           e == seq[Len(seq)]
       IN IF \E i \in 1..Len(r) : r[i] = e THEN r ELSE Append(r, e)

-----------------------------------------------------------------------------
(* Class constants *)

HEADERS_ID == <<"_","_","h","e","a","d","e","r","_","_">>
AUTO_ID_HEADER == <<"_","_","A","u","t","o","I","D","_","_">>
COMMENT_CHAR == "#"
APPEND_CHAR == ";"
BLANK_VALUE == <<>>
FLAG_VALUE == <<"_","_","f","l","a","g","_","_">>
EXCLUDE_HEADER == <<"_","_","e","x","c","l","u","d","e","_","_">>

SMART_APPEND == <<"s","m","a","r","t","_","a","p","p","e","n","d">>
APPEND == <<"a","p","p","e","n","d">>
OVERWRITE == <<"o","v","e","r","w","r","i","t","e">>
ADD == <<"a","d","d">>
ValidModes == {SMART_APPEND, APPEND, OVERWRITE, ADD}

-----------------------------------------------------------------------------
(* Value merge policy *)

NONE == <<"None">>   \* Python's None

\* Pysheet.isBlank for a cell that is a string, a number or None
isBlank(cell) == cell = BLANK_VALUE \/ cell = NONE

Returned(v) == [exc |-> "", val |-> v]
Raised(e, v) == [exc |-> e, val |-> v]

\* "%s%s%s" % (cellA, APPEND_CHAR, cellB)
joined(a, b) == str(a) \o <<APPEND_CHAR>> \o str(b)

\* tryNumber(cellA) + tryNumber(cellB)
plus(a, b) ==
  LET x == tryNumber(a)
      y == tryNumber(b)
  IN IF isNumber(x) /\ isNumber(y) THEN Returned(number(valueOf(x) + valueOf(y)))
     ELSE IF ~isNumber(x) /\ ~isNumber(y) THEN Returned(x \o y)
     ELSE Raised("TypeError", a)

\* mode 'overwrite' copying cellB on top even when it is blank
overwriteAlways(a, b) == Returned(b)

\* mode 'overwrite': just copy on top
overwrite(a, b) == IF ~isBlank(b) THEN Returned(b) ELSE Returned(a)

\* Pysheet.mergedValue(cellA, cellB, mode)
mergedValue(a, b, mode) ==
  LET m == lower(mode) IN
  IF m \notin ValidModes THEN Raised("PysheetException", a)
  ELSE IF isBlank(a) THEN Returned(b)
  ELSE IF m = SMART_APPEND THEN
    IF ~isBlank(b) /\ ~(\E i \in 1..Len(split(str(a), APPEND_CHAR)) :
                           split(str(a), APPEND_CHAR)[i] = str(b))
    THEN Returned(joined(a, b)) ELSE Returned(a)
  ELSE IF m = APPEND THEN
    IF ~isBlank(b) THEN Returned(joined(a, b)) ELSE Returned(a)
  ELSE IF m = OVERWRITE THEN overwrite(a, b)
  ELSE \* add
    IF ~isBlank(b) THEN plus(a, b) ELSE Returned(a)

-----------------------------------------------------------------------------
(* Table store: a table is [rows |-> key -> row, idColumn |-> n]; an        *)
(* operation yields the table it leaves behind and the exception it raised  *)
(* ("" when it returned).                                                   *)

\* randomId(): the object id drawn at construction
obj_id == <<"_","o">>

Table(r, c) == [rows |-> r, idColumn |-> c]
Done(r, c) == [rows |-> r, idColumn |-> c, exc |-> ""]
Fail(r, c, e) == [rows |-> r, idColumn |-> c, exc |-> e]

\* d[k] = v on a dictionary
put(d, k, v) == [x \in DOMAIN d \cup {k} |-> IF x = k THEN v ELSE d[x]]
\* del d[k]
del(d, k) == [x \in DOMAIN d \ {k} |-> d[x]]

\* Pysheet.__delitem__(key): del self.rows[clean(key)]
delitem(t, key) ==
  IF clean(key) \in DOMAIN t.rows
  THEN [rows |-> del(t.rows, clean(key)), idColumn |-> t.idColumn, exc |-> ""]
  ELSE [rows |-> t.rows, idColumn |-> t.idColumn, exc |-> "KeyError"]

\* [BLANK_VALUE] * n
blanks(n) == [i \in 1..n |-> BLANK_VALUE]

\* a Python list index: i in -len..len-1 addresses position pos(row, i)
validIndex(row, i) == i >= -Len(row) /\ i < Len(row)
pos(row, i) == IF i >= 0 THEN i + 1 ELSE Len(row) + i + 1

\* list.insert(i, v) for 0 <= i <= len
insert(row, i, v) == SubSeq(row, 1, i) \o <<v>> \o SubSeq(row, i + 1, Len(row))
\* del list[i] for 0 <= i < len
remove(row, i) == SubSeq(row, 1, i) \o SubSeq(row, i + 2, Len(row))

\* Pysheet.clear
clear == (HEADERS_ID :> << <<"I","D">> >>)

hasHeaders(r) == HEADERS_ID \in DOMAIN r
\* Pysheet.getHeaders (None when the header row is gone)
getHeaders(r) == r[HEADERS_ID]
\* Pysheet.__len__: len(None) raises TypeError
len(r) == Len(getHeaders(r))
\* Pysheet.height
height(r) == Cardinality(DOMAIN r)

dataKeys(r) == DOMAIN r \ {HEADERS_ID}

\* [l.lower().replace('__','') for l in self.getHeaders()] raises when the
\* header row is gone (TypeError) or holds a number (AttributeError)
headersRaise(r) ==
  IF ~hasHeaders(r) THEN "TypeError"
  ELSE IF \E i \in 1..len(r) : isNumber(getHeaders(r)[i]) THEN "AttributeError"
  ELSE ""
headers_lower(r) == [i \in 1..len(r) |-> unlock(lower(getHeaders(r)[i]))]

\* the column-number branch of headerIndex without its range test
columnNumberUnchecked(r, h) == IF isdigit(h) THEN int(h) ELSE -1

\* headerIndex's branch for a header that is a column number
columnNumber(r, h) == IF isdigit(h) /\ int(h) < len(r) THEN int(h) ELSE -1

\* Pysheet.headerIndex, where headersRaise(r) = ""
headerIndex(r, header) ==
  LET h == unlock(clean(header))
      hl == headers_lower(r)
  IN IF \E i \in 1..Len(hl) : hl[i] = h
     THEN (CHOOSE i \in 1..Len(hl) : hl[i] = h /\ \A j \in 1..(i - 1) : hl[j] # h) - 1
     ELSE columnNumber(r, h)

-----------------------------------------------------------------------------
(* load *)

max(a, b) == IF a > b THEN a ELSE b

\* "C%03d%s" % (col+1, self.obj_id) and "R%05d%s" % (row, self.obj_id)
padded(n, width) ==
  LET d == decimal(n)
  IN [i \in 1..max(width - Len(d), 0) |-> "0"] \o d
autoHeader(col) == <<"C">> \o padded(col + 1, 3) \o obj_id
autoId(row) == <<"R">> \o padded(row, 5) \o obj_id

\* load skips blank, short lines and comments
skipped(line, minLen) ==
  \/ Len(line) < max(minLen, 1)
  \/ (str(line[1]) # <<>> /\ str(line[1])[1] = COMMENT_CHAR)

\* the body of load's reading loop for one line; st carries rows, row,
\* head_len and the exception raised so far
loadLine(st, line, idc, minLen, noHeader) ==
  LET line_len == Len(line) IN
  IF st.exc # "" THEN st
  ELSE IF skipped(line, minLen)
  THEN st
  ELSE
    LET isHead == st.row = 0
        head_len == IF isHead THEN line_len ELSE st.head_len
        hdr0 == IF noHeader THEN [c \in 1..head_len |-> autoHeader(c - 1)]
                ELSE [c \in 1..head_len |-> strip(str(line[c]))]
        hdr == IF idc = -1 THEN Append(hdr0, AUTO_ID_HEADER) ELSE hdr0
        rows1 == IF isHead THEN put(st.rows, HEADERS_ID, hdr) ELSE st.rows
        row1 == IF isHead /\ noHeader THEN 1 ELSE st.row
        cut == [c \in 1..head_len |-> IF c <= line_len THEN line[c] ELSE BLANK_VALUE]
        thisline == IF idc = -1 THEN Append(cut, autoId(row1)) ELSE cut
        rows2 == IF row1 > 0
                 THEN put(rows1, clean(sanitize(thisline[pos(thisline, idc)])), thisline)
                 ELSE rows1
    IN IF isHead /\ idc >= head_len
       THEN [st EXCEPT !.exc = "PysheetException", !.head_len = head_len]
       ELSE [rows |-> rows2, row |-> row1 + 1, head_len |-> head_len, exc |-> ""]

RECURSIVE loadLines(_, _, _, _, _, _)
loadLines(st, lines, n, idc, minLen, noHeader) ==
  IF n > Len(lines) THEN st
  ELSE loadLines(loadLine(st, lines[n], idc, minLen, noHeader),
                 lines, n + 1, idc, minLen, noHeader)

\* Pysheet.load(iterable, idColumn, noHeader=noHeader) on a list of lines;
\* idc is <<>> for idColumn=None and <<n>> for idColumn=n. Yields rows,
\* idColumn, MIN_LINE_LEN and the exception.
load(t, minLen, lines, idc, noHeader) ==
  IF lines = <<>>
  THEN [rows |-> clear, idColumn |-> t.idColumn, minLen |-> minLen, exc |-> ""]
  ELSE
    LET idc1 == IF idc = <<>> THEN t.idColumn ELSE IF idc[1] < 0 THEN -1 ELSE idc[1]
        minLen1 == IF idc # <<>> /\ idc[1] < 0 THEN minLen - 1 ELSE minLen
        st == loadLines([rows |-> clear, row |-> 0, head_len |-> -1, exc |-> ""],
                        lines, 1, idc1, minLen1, noHeader)
    IN [rows |-> st.rows,
        idColumn |-> IF st.exc = "" /\ idc1 = -1 THEN st.head_len ELSE idc1,
        minLen |-> minLen1,
        exc |-> st.exc]

-----------------------------------------------------------------------------
(* Cells, rows and columns *)

min(a, b) == IF a < b THEN a ELSE b

\* Pysheet.expand
expand(t) ==
  LET r == t.rows
      headlen == len(r)
  IN IF \E k \in DOMAIN r : Len(r[k]) > headlen
     THEN Fail(r, t.idColumn, "AssertionError")
     ELSE Done([k \in DOMAIN r |-> r[k] \o blanks(headlen - Len(r[k]))], t.idColumn)

\* the index insertColumn picks when none is given
firstUnlocked(hdr, index) ==
  LET RECURSIVE scan(_)
      scan(i) == IF i < Len(hdr) /\ isLocked(hdr[i + 1]) THEN scan(i + 1) ELSE i
  IN scan(index)

\* idColumn after an insert that moves it only when strictly before it
idColumnAfterInsertBefore(idc, at) == IF at < idc THEN idc + 1 ELSE idc

\* idColumn after insertColumn inserted at index at: "did we insert before
\* the idColumn?"
idColumnAfterInsert(idc, at) == IF at <= idc THEN idc + 1 ELSE idc

\* the header cell insertColumn would insert if it took the name as it is
lockedNameAsGiven(name) == name

\* the header cell insertColumn inserts: the name behind the lock marker
lockedName(name) == IF isLocked(strip(name)) THEN name ELSE <<"_","_">> \o strip(name)

\* Pysheet.insertColumn(header, index); index is <<>> for None, <<n>> for n
insertColumn(t, header, index) ==
  LET r == t.rows
      name == str(header)
  IN IF headersRaise(r) # "" THEN Fail(r, t.idColumn, headersRaise(r))
     ELSE IF \E i \in 1..len(r) : headers_lower(r)[i] = unlock(lower(name))
     THEN Done(r, t.idColumn)
     ELSE IF index # <<>> /\ ~(index[1] >= 0 /\ index[1] <= len(r))
     THEN Fail(r, t.idColumn, "AssertionError")
     ELSE
       LET at == IF index = <<>> THEN firstUnlocked(getHeaders(r), 1) ELSE index[1]
           locked == lockedName(name)
       IN Done([k \in DOMAIN r |->
                  LET i == min(at, Len(r[k]))
                  IN SubSeq(r[k], 1, i)
                       \o <<IF k = HEADERS_ID THEN locked ELSE BLANK_VALUE>>
                       \o SubSeq(r[k], i + 1, Len(r[k]))],
               idColumnAfterInsert(t.idColumn, at))

\* Pysheet.addCell(key, header, value, mode); header and value may be NONE
addCell(t, key, header, value, mode) ==
  LET r0 == t.rows
      idc == t.idColumn
      cleankey == clean(sanitize(key))
  IN IF cleankey \notin DOMAIN r0 /\ ~hasHeaders(r0) THEN Fail(r0, idc, "TypeError")
     ELSE
       LET r1 == IF cleankey \in DOMAIN r0 THEN r0
                 ELSE put(r0, cleankey, <<strip(key)>> \o blanks(len(r0) - 1))
           h == strip(header)
       IN IF header = NONE THEN Done(r1, idc)
          ELSE IF headersRaise(r1) # "" THEN Fail(r1, idc, headersRaise(r1))
          ELSE
            LET t2 == IF headerIndex(r1, h) # -1 THEN Done(r1, idc)
                      ELSE IF isLocked(h) THEN insertColumn(Table(r1, idc), h, <<>>)
                      ELSE expand(Table([r1 EXCEPT ![HEADERS_ID] = Append(@, h)], idc))
                v == IF value = NONE THEN BLANK_VALUE ELSE value
            IN IF t2.exc # "" THEN t2
               ELSE
                 LET hi == headerIndex(t2.rows, h)
                     row == t2.rows[cleankey]
                 IN IF ~validIndex(row, hi) THEN Fail(t2.rows, t2.idColumn, "IndexError")
                    ELSE
                      LET m == mergedValue(row[pos(row, hi)], v, mode)
                      IN IF m.exc # "" THEN Fail(t2.rows, t2.idColumn, m.exc)
                         ELSE Done([t2.rows EXCEPT ![cleankey][pos(row, hi)] = m.val],
                                   t2.idColumn)

\* Pysheet.removeCell(key, header); header may be NONE
removeCell(t, key, header) ==
  LET r == t.rows
      cleankey == clean(sanitize(key))
      h == strip(header)
  IN IF cleankey \notin DOMAIN r THEN Done(r, t.idColumn)
     ELSE IF header = NONE THEN Done(del(r, cleankey), t.idColumn)
     ELSE IF headersRaise(r) # "" THEN Fail(r, t.idColumn, headersRaise(r))
     ELSE IF headerIndex(r, h) = -1 THEN Done(r, t.idColumn)
     ELSE IF ~validIndex(r[cleankey], headerIndex(r, h))
     THEN Fail(r, t.idColumn, "IndexError")
     ELSE Done([r EXCEPT ![cleankey][headerIndex(r, h) + 1] = BLANK_VALUE], t.idColumn)

\* cols.sort(); cols.reverse()
RECURSIVE sortedReversed(_)
sortedReversed(cols) ==
  IF cols = <<>> THEN <<>>
  ELSE LET i == CHOOSE i \in 1..Len(cols) : \A j \in 1..Len(cols) : cols[j] <= cols[i]
       IN <<cols[i]>> \o sortedReversed(SubSeq(cols, 1, i - 1) \o SubSeq(cols, i + 1, Len(cols)))

\* removeColumns: the loop that checks the columns and moves idColumn
RECURSIVE checkColumns(_, _, _, _)
checkColumns(r, cols, n, idc) ==
  IF n > Len(cols) THEN [idColumn |-> idc, exc |-> ""]
  ELSE LET c == cols[n] IN
       IF c = idc THEN [idColumn |-> idc, exc |-> "PysheetException"]
       ELSE IF c < 0 THEN [idColumn |-> idc, exc |-> "AssertionError"]
       ELSE IF ~hasHeaders(r) THEN [idColumn |-> idc, exc |-> "TypeError"]
       ELSE IF c >= len(r) THEN [idColumn |-> idc, exc |-> "AssertionError"]
       ELSE checkColumns(r, cols, n + 1, IF c < idc THEN idc - 1 ELSE idc)

\* for c in cols: del row[c]
RECURSIVE delColumns(_, _, _)
delColumns(row, cols, n) ==
  IF n > Len(cols) THEN row
  ELSE delColumns(SubSeq(row, 1, cols[n]) \o SubSeq(row, cols[n] + 2, Len(row)), cols, n + 1)

\* Pysheet.removeColumns(cols) for a list of integers
removeColumns(t, cols) ==
  LET r == t.rows
      cs == unique(sortedReversed(cols))
      chk == checkColumns(r, cs, 1, t.idColumn)
  IN IF cols = <<>> THEN Done(r, t.idColumn)
     ELSE IF chk.exc # "" THEN Fail(r, chk.idColumn, chk.exc)
     ELSE IF \E k \in DOMAIN r : Len(r[k]) # len(r)
     THEN Fail(r, chk.idColumn, "IndexError")
     ELSE Done([k \in DOMAIN r |-> delColumns(r[k], cs, 1)], chk.idColumn)

\* Pysheet.removeColumns(col) for one integer that is not in a list: 0 is
\* falsy and skips the whole body
removeColumn(t, col) ==
  IF col = 0 THEN Done(t.rows, t.idColumn) ELSE removeColumns(t, <<col>>)

\* Pysheet.rename(newName, header, key); header and key may be NONE
rename(t, newName, header, key) ==
  LET r == t.rows
      idc == t.idColumn
  IN IF header # NONE /\ header # <<>>
     THEN IF headersRaise(r) # "" THEN Fail(r, idc, headersRaise(r))
          ELSE IF headerIndex(r, header) >= 0
          THEN Done([r EXCEPT ![HEADERS_ID][headerIndex(r, header) + 1] = strip(str(newName))],
                    idc)
          ELSE Fail(r, idc, "PysheetException")
     ELSE IF key # NONE /\ key # <<>> /\ key # HEADERS_ID
     THEN LET cleanKey == clean(sanitize(key))
              cleanNewKey == clean(sanitize(newName))
          IN IF cleanKey \notin DOMAIN r THEN Fail(r, idc, "PysheetException")
             ELSE IF cleanKey = cleanNewKey THEN Done(r, idc)
             ELSE IF ~validIndex(r[cleanKey], idc)
             THEN Fail(del(r, cleanKey), idc, "IndexError")
             ELSE Done(put(del(r, cleanKey), cleanNewKey,
                           [r[cleanKey] EXCEPT ![pos(r[cleanKey], idc)] = newName]),
                       idc)
     ELSE Done(r, idc)

\* Pysheet.zeroFill()
zeroFill(t) ==
  Done([k \in DOMAIN t.rows |->
          [h \in 1..Len(t.rows[k]) |->
             IF t.rows[k][h] = BLANK_VALUE THEN number(0) ELSE t.rows[k][h]]],
       t.idColumn)

-----------------------------------------------------------------------------
(* Merge engine *)

\* the orders in which a loop over a dictionary may meet the keys ks
RECURSIVE Orders(_)
Orders(ks) ==
  IF ks = {} THEN {<<>>}
  ELSE UNION {{<<k>> \o ord : ord \in Orders(ks \ {k})} : k \in ks}

\* contract's loop over the rows for one pair of columns i < j with the same
\* header, meeting the data rows in the order ks
RECURSIVE foldRows(_, _, _, _, _, _, _)
foldRows(r, idc, i, j, mode, ks, n) ==
  IF n > Len(ks) THEN [rows |-> r, exc |-> ""]
  ELSE
    LET k == ks[n] IN
    IF k \notin DOMAIN r THEN [rows |-> r, exc |-> "TypeError"]
    ELSE IF Len(r[k]) <= j THEN [rows |-> r, exc |-> "IndexError"]
    ELSE
      LET m == mergedValue(r[k][i + 1], r[k][j + 1], IF i = idc THEN OVERWRITE ELSE mode)
          r1 == [r EXCEPT ![k][i + 1] = m.val]
          t1 == IF i = idc THEN rename(Table(r1, idc), m.val, NONE, k) ELSE Done(r1, idc)
      IN IF m.exc # "" THEN [rows |-> r, exc |-> m.exc]
         ELSE IF t1.exc # "" THEN [rows |-> t1.rows, exc |-> t1.exc]
         ELSE foldRows(t1.rows, idc, i, j, mode, ks, n + 1)

\* the pairs (i, j) of contract's two loops, in the order they are visited
RECURSIVE pairsFrom(_, _, _)
pairsFrom(i, j, n) ==
  IF i >= n - 1 THEN <<>>
  ELSE IF j >= n THEN pairsFrom(i + 1, i + 2, n)
  ELSE <<<<i, j>>>> \o pairsFrom(i, j + 1, n)

\* contract's loops from the n-th pair on: the states they may end in
RECURSIVE foldPairs(_, _, _, _, _)
foldPairs(S, pairs, n, idc, mode) ==
  IF n > Len(pairs) THEN S
  ELSE
    LET i == pairs[n][1]
        j == pairs[n][2]
        step(s) ==
          IF s.exc # "" THEN {s}
          ELSE IF isNumber(getHeaders(s.rows)[i + 1]) \/ isNumber(getHeaders(s.rows)[j + 1])
          THEN {[s EXCEPT !.exc = "AttributeError"]}
          ELSE IF unlock(lower(getHeaders(s.rows)[i + 1]))
                    # unlock(lower(getHeaders(s.rows)[j + 1]))
          THEN {s}
          ELSE {LET f == foldRows(s.rows, idc, i, j, mode, ks, 1)
                IN [rows |-> f.rows, exc |-> f.exc, deleteme |-> Append(s.deleteme, j)]
                : ks \in Orders(dataKeys(s.rows))}
    IN foldPairs(UNION {step(s) : s \in S}, pairs, n + 1, idc, mode)

\* Pysheet.contract(mode): the tables it may leave behind
contract(t, mode) ==
  IF ~hasHeaders(t.rows) THEN {Fail(t.rows, t.idColumn, "TypeError")}
  ELSE
    LET ends == foldPairs({[rows |-> t.rows, exc |-> "", deleteme |-> <<>>]},
                          pairsFrom(0, 1, len(t.rows)), 1, t.idColumn, mode)
    IN {IF s.exc # "" THEN Fail(s.rows, t.idColumn, s.exc)
        ELSE removeColumns(Table(s.rows, t.idColumn), s.deleteme) : s \in ends}

\* __add__ with the rows found only in other left as they are
joinRowsUnpadded(A, B, oldlen) ==
  [k \in DOMAIN A \cup DOMAIN B |->
     IF k \in DOMAIN A
     THEN IF k \in DOMAIN B THEN A[k] \o B[k] ELSE A[k]
     ELSE B[k]]

\* the two loops of __add__: the rows of B appended to the rows of A
joinRows(A, B, oldlen) ==
  [k \in DOMAIN A \cup DOMAIN B |->
     IF k \in DOMAIN A
     THEN IF k \in DOMAIN B THEN A[k] \o B[k] ELSE A[k]
     ELSE blanks(oldlen) \o B[k]]

\* Pysheet.__add__(other): merges the table other into t
combine(t, other) ==
  LET A == t.rows
      B == other.rows
      idc == t.idColumn
  IN IF ~hasHeaders(A) THEN Fail(A, idc, "TypeError")
     ELSE
       LET oldlen == len(A)
           merged == (DOMAIN B # {})
           joinedRows == joinRows(A, B, oldlen)
           e == expand(Table(joinedRows, idc))
           hdr == getHeaders(e.rows)
           to == oldlen + other.idColumn
       IN IF e.exc # "" THEN e
          ELSE IF ~merged THEN e
          ELSE IF ~validIndex(hdr, to) \/ ~validIndex(hdr, idc)
          THEN Fail(e.rows, idc, "IndexError")
          ELSE Done([e.rows EXCEPT ![HEADERS_ID][pos(hdr, to)] = hdr[pos(hdr, idc)]], idc)

-----------------------------------------------------------------------------
(* Consolidation *)

\* sub in s
contains(s, sub) ==
  \E o \in 0..(Len(s) - Len(sub)) : SubSeq(s, o + 1, o + Len(sub)) = sub

\* Pysheet.grab(key=key, header=header), where headersRaise(r) = ""
grab(r, key, header) ==
  LET cleankey == clean(key)
      hi == headerIndex(r, strip(header))
  IN IF cleankey \notin DOMAIN r THEN NONE
     ELSE IF hi = -1 THEN NONE
     ELSE r[cleankey][hi + 1]

\* excluded(key) without its test for the header row
excludedAnyRow(r, key) == ~isBlank(grab(r, key, EXCLUDE_HEADER))

\* Pysheet.excluded(key)
excluded(r, key) ==
  IF key = HEADERS_ID THEN FALSE ELSE ~isBlank(grab(r, key, EXCLUDE_HEADER))

\* the keys whose ID Pysheet.getIds() returns
idKeys(r) == {k \in dataKeys(r) : ~isLocked(k) /\ ~excluded(r, k)}

\* consolidate's loop over ids = getIds() for the target column at and the
\* source column i
RECURSIVE mergeIds(_, _, _, _, _, _)
mergeIds(r, at, i, mode, ids, n) ==
  IF n > Len(ids) THEN [rows |-> r, exc |-> ""]
  ELSE
    LET k == clean(sanitize(ids[n]))
    IN IF k \notin DOMAIN r THEN [rows |-> r, exc |-> "TypeError"]
       ELSE
         LET m == mergedValue(r[k][at + 1], r[k][i + 1], mode)
         IN IF m.exc # "" THEN [rows |-> r, exc |-> m.exc]
            ELSE mergeIds([r EXCEPT ![k][at + 1] = m.val], at, i, mode, ids, n + 1)

\* the keywords of a consolidation [header, keyword, ...]
keywords(group) ==
  IF Len(group) = 1 THEN <<lower(group[1])>>
  ELSE [n \in 1..(Len(group) - 1) |-> lower(group[n + 1])]

\* consolidate's loop over the columns from column i on
RECURSIVE foldColumns(_, _, _, _, _)
foldColumns(S, i, idc, groups, mode) ==
  LET caught(r, h) ==
        /\ headerIndex(r, groups[h][1]) # i
        /\ ~isLocked(getHeaders(r)[i + 1])
        /\ \E n \in 1..Len(keywords(groups[h])) :
             contains(lower(getHeaders(r)[i + 1]), keywords(groups[h])[n])
      step(s) ==
        IF s.exc # "" \/ i >= len(s.rows) THEN {s}
        ELSE IF headersRaise(s.rows) # "" THEN {[s EXCEPT !.exc = headersRaise(s.rows)]}
        ELSE IF ~\E h \in 1..Len(groups) : caught(s.rows, h) THEN {s}
        ELSE IF \E k \in idKeys(s.rows) : ~validIndex(s.rows[k], idc)
        THEN {[s EXCEPT !.exc = "IndexError"]}
        ELSE
          LET h == CHOOSE h \in 1..Len(groups) :
                     caught(s.rows, h) /\ \A g \in 1..(h - 1) : ~caught(s.rows, g)
              at == headerIndex(s.rows, groups[h][1])
          IN {LET ids == [n \in 1..Len(ks) |-> s.rows[ks[n]][pos(s.rows[ks[n]], idc)]]
                  f == mergeIds(s.rows, at, i, mode, ids, 1)
              IN [rows |-> f.rows, exc |-> f.exc, deleteme |-> Append(s.deleteme, i)]
              : ks \in Orders(idKeys(s.rows))}
  IN IF \A s \in S : s.exc # "" \/ i >= len(s.rows) THEN S
     ELSE foldColumns(UNION {step(s) : s \in S}, i + 1, idc, groups, mode)

\* consolidate's loop that inserts the new headers
RECURSIVE insertHeaders(_, _, _)
insertHeaders(t, groups, n) ==
  IF n > Len(groups) \/ t.exc # "" THEN t
  ELSE insertHeaders(insertColumn(Table(t.rows, t.idColumn), groups[n][1], <<>>),
                     groups, n + 1)

\* Pysheet.consolidate(consolidations, cleanUp, mode) for a list of lists:
\* the tables it may leave behind
consolidate(t, groups, cleanUp, mode) ==
  UNION {
    IF c.exc # "" THEN {c}
    ELSE IF groups = <<>> \/ groups[1] = <<>> THEN {c}
    ELSE
      LET ins == insertHeaders(c, groups, 1)
          ends == foldColumns({[rows |-> ins.rows, exc |-> "", deleteme |-> <<>>]},
                              0, ins.idColumn, groups, mode)
      IN IF ins.exc # "" THEN {ins}
         ELSE {IF s.exc # "" THEN Fail(s.rows, ins.idColumn, s.exc)
               ELSE IF cleanUp THEN removeColumns(Table(s.rows, ins.idColumn), s.deleteme)
               ELSE Done(s.rows, ins.idColumn) : s \in ends}
    : c \in contract(t, mode)}

-----------------------------------------------------------------------------
(* Column specifications: a parsed specification is a sequence of          *)
(* [col, op, arg], one per resolved column, in place of the three parallel  *)
(* lists of the source                                                      *)

ALL == <<"A","L","L">>
UNIQUE == <<"U","N","I","Q","U","E">>

\* the operator characters in the order parseColumns looks for them
Operators == <<"<", ">", "=", "!", "~", "+">>

plain(cs) == [i \in 1..Len(cs) |-> [col |-> cs[i], op |-> "", arg |-> BLANK_VALUE]]

\* range(self.idColumn) + range(self.idColumn+1, len(self))
allColumns(r, idc) == range(0, idc) \o range(idc + 1, len(r))

\* cols.remove("ALL")
removeALL(cols) ==
  LET i == CHOOSE i \in 1..Len(cols) : cols[i] = ALL /\ \A j \in 1..(i - 1) : cols[j] # ALL
  IN SubSeq(cols, 1, i - 1) \o SubSeq(cols, i + 1, Len(cols))

\* parseColumns: the token c as a range 'a-b' or 'a-'; <<>> when it is none
\* (added stays False), else <<the columns>>
asRange(r, c) ==
  LET parts == split1(c, "-")
  IN IF Len(parts) # 2 \/ ~isdigit(parts[1]) THEN <<>>
     ELSE LET frm == int(parts[1])
              to == parts[2]
          IN IF isdigit(to)
             THEN IF int(to) >= frm /\ frm < len(r) /\ int(to) < len(r)
                  THEN <<plain(range(frm, int(to) + 1))>>
                  ELSE <<>>
             ELSE IF to = <<>> THEN <<plain(range(frm, len(r)))>>
             ELSE <<>>

\* parseColumns: the operator characters found in the token c
operatorsIn(c) ==
  SelectSeq(Operators, LAMBDA o : \E i \in 1..Len(c) : c[i] = o)

\* parseColumns: the token c as 'column operator argument'
asPredicate(r, c) ==
  LET ops == operatorsIn(c)
  IN IF Len(ops) # 1 THEN <<>>
     ELSE LET parts == split1(c, ops[1])
          IN IF parts[2] # <<>> /\ headerIndex(r, parts[1]) >= 0
             THEN <<<<[col |-> headerIndex(r, parts[1]), op |-> ops[1],
                       arg |-> tryNumber(parts[2])]>>>>
             ELSE <<>>

\* parseColumns: one token; <<>> when it cannot be parsed
parseColumn(r, c) ==
  IF headerIndex(r, c) >= 0 THEN <<plain(<<headerIndex(r, c)>>)>>
  ELSE IF asRange(r, c) # <<>> THEN asRange(r, c)
  ELSE asPredicate(r, c)

\* parseColumns: the loop over the tokens from token n on
RECURSIVE parseTokens(_, _, _, _)
parseTokens(r, cols, n, parsed) ==
  IF n > Len(cols) THEN Returned(parsed)
  ELSE IF headersRaise(r) # "" THEN Raised(headersRaise(r), NONE)
  ELSE IF parseColumn(r, cols[n]) = <<>> THEN Raised("PysheetException", cols[n])
  ELSE parseTokens(r, cols, n + 1, parsed \o parseColumn(r, cols[n])[1])

\* Pysheet.parseColumns(cols) for a list of strings; a raised
\* PysheetException carries the token it names
parseColumns(t, cols) ==
  IF cols = <<>> THEN Returned(<<>>)
  ELSE IF \E i \in 1..Len(cols) : cols[i] = ALL
  THEN IF ~hasHeaders(t.rows) THEN Raised("TypeError", NONE)
       ELSE parseTokens(t.rows, removeALL(cols), 1, plain(allColumns(t.rows, t.idColumn)))
  ELSE parseTokens(t.rows, cols, 1, <<>>)

-----------------------------------------------------------------------------
(* Extracting columns *)

\* "not extrct[2][j]": the empty string and the number 0 are falsy
falsy(arg) == arg = BLANK_VALUE \/ (isNumber(arg) /\ valueOf(arg) = 0)

\* the comparison a column's operator and argument ask of a cell, as
\* produceColumn and getColumns both write it
satisfied(e, cell) ==
  \/ e.op = "<" /\ less(tryNumber(cell), e.arg)
  \/ e.op = ">" /\ less(e.arg, tryNumber(cell))
  \/ e.op = "=" /\ tryNumber(cell) = e.arg
  \/ e.op = "~" /\ contains(str(cell), str(e.arg))
  \/ e.op = "!" /\ tryNumber(cell) # e.arg

\* the cell passes column e as it is
accepts(e, cell) == e.op = "" \/ falsy(e.arg) \/ satisfied(e, cell)

\* what raises when the loop meets row k: excluded(k) looks the exclude
\* column up in the header row and reads the row's cell there
excludedRaise(r, k, exclude) ==
  IF ~exclude \/ k = HEADERS_ID THEN ""
  ELSE IF headersRaise(r) # "" THEN headersRaise(r)
  ELSE IF headerIndex(r, EXCLUDE_HEADER) >= 0
          /\ ~validIndex(r[k], headerIndex(r, EXCLUDE_HEADER))
  THEN "IndexError"
  ELSE ""

\* transpose(ret)[j]: column j (from 0) of the records found so far
column(found, j) == {found[n][j + 1] : n \in 1..Len(found)}

\* getColumns: the cell that data row k contributes to column j of extrct,
\* given the records found so far (ret)
contribution(row, extrct, j, found) ==
  LET e == extrct[j]
      cell == row[e.col + 1]
  IN IF accepts(e, cell) \/ (e.arg = UNIQUE /\ cell \notin column(found, j))
     THEN cell
     ELSE IF e.op = "+"
     THEN IF isNumber(tryNumber(cell)) /\ isNumber(tryNumber(e.arg))
          THEN number(valueOf(tryNumber(cell)) + valueOf(tryNumber(e.arg)))
          ELSE str(cell) \o str(e.arg)
     ELSE FLAG_VALUE

\* getColumns: the header of column j of extrct with its operator and
\* argument
rendered(hdr, extrct, j) ==
  LET e == extrct[j]
  IN IF falsy(e.arg) THEN hdr[e.col + 1]
     ELSE hdr[e.col + 1] \o <<e.op>> \o str(e.arg)

\* getColumns: the loop over the rows met in the order ks, from row n on
RECURSIVE getRows(_, _, _, _, _, _, _)
getRows(t, extrct, withBlanks, exclude, ks, n, found) ==
  IF n > Len(ks) THEN Returned(found)
  ELSE
    LET r == t.rows
        k == ks[n]
        row == r[k]
        add == [j \in 1..Len(extrct) |->
                  IF k = HEADERS_ID THEN unlock(rendered(row, extrct, j))
                  ELSE contribution(row, extrct, j, found)]
    IN IF excludedRaise(r, k, exclude) # "" THEN Raised(excludedRaise(r, k, exclude), NONE)
       ELSE IF exclude /\ excluded(r, k)
       THEN getRows(t, extrct, withBlanks, exclude, ks, n + 1, found)
       ELSE IF \E j \in 1..Len(extrct) : ~validIndex(row, extrct[j].col)
       THEN Raised("IndexError", NONE)
       ELSE IF k = HEADERS_ID /\ \E j \in 1..Len(extrct) : isNumber(row[extrct[j].col + 1])
       THEN Raised("AttributeError", NONE)
       ELSE IF (k = HEADERS_ID \/ \A j \in 1..Len(add) : add[j] # FLAG_VALUE)
               /\ ~validIndex(row, t.idColumn)
       THEN Raised("IndexError", NONE)
       ELSE IF k = HEADERS_ID
       THEN getRows(t, extrct, withBlanks, exclude, ks, n + 1,
                    <<<<row[pos(row, t.idColumn)]>> \o add>> \o found)
       ELSE IF \E j \in 1..Len(add) : add[j] = FLAG_VALUE
       THEN getRows(t, extrct, withBlanks, exclude, ks, n + 1, found)
       ELSE IF withBlanks \/ \A j \in 1..Len(add) : add[j] # BLANK_VALUE
       THEN getRows(t, extrct, withBlanks, exclude, ks, n + 1,
                    found \o <<<<row[pos(row, t.idColumn)]>> \o add>>)
       ELSE getRows(t, extrct, withBlanks, exclude, ks, n + 1, found)

\* Pysheet.getColumns(cols, blanks, exclude): one outcome for each order in
\* which the dictionary may yield its rows
getColumns(t, cols, withBlanks, exclude) ==
  LET parsed == parseColumns(t, cols)
  IN IF parsed.exc # "" THEN {parsed}
     ELSE IF ~hasHeaders(t.rows) THEN {Raised("TypeError", NONE)}
     ELSE LET extrct == IF parsed.val = <<>>
                        THEN plain(allColumns(t.rows, t.idColumn))
                        ELSE parsed.val
          IN {getRows(t, extrct, withBlanks, exclude, ks, 1, <<>>) : ks \in Orders(DOMAIN t.rows)}

\* "_".join(strs)
RECURSIVE join(_)
join(strs) ==
  IF strs = <<>> THEN <<>>
  ELSE IF Len(strs) = 1 THEN strs[1]
  ELSE strs[1] \o <<"_">> \o join(Tail(strs))

\* produceColumn: the loop over the rows met in the order ks, from row n on;
\* found holds the IDs and the hybrids
RECURSIVE produceRows(_, _, _, _, _, _, _)
produceRows(t, cols, withBlanks, exclude, ks, n, found) ==
  IF n > Len(ks) THEN Returned(IF found[1] = <<>> THEN <<>> ELSE found)
  ELSE
    LET r == t.rows
        k == ks[n]
        row == r[k]
        hybrid == [j \in 1..Len(cols) |->
                     IF accepts(cols[j], row[cols[j].col + 1])
                     THEN row[cols[j].col + 1] ELSE BLANK_VALUE]
        strs == [j \in 1..Len(hybrid) |-> str(hybrid[j])]
    IN IF k = HEADERS_ID THEN produceRows(t, cols, withBlanks, exclude, ks, n + 1, found)
       ELSE IF excludedRaise(r, k, exclude) # ""
       THEN Raised(excludedRaise(r, k, exclude), NONE)
       ELSE IF exclude /\ excluded(r, k)
       THEN produceRows(t, cols, withBlanks, exclude, ks, n + 1, found)
       ELSE IF \E j \in 1..Len(cols) : ~validIndex(row, cols[j].col)
       THEN Raised("IndexError", NONE)
       ELSE IF ~withBlanks /\ \E j \in 1..Len(hybrid) : hybrid[j] = BLANK_VALUE
       THEN produceRows(t, cols, withBlanks, exclude, ks, n + 1, found)
       ELSE IF ~validIndex(row, t.idColumn) THEN Raised("IndexError", NONE)
       ELSE produceRows(t, cols, withBlanks, exclude, ks, n + 1,
                        <<found[1] \o <<row[pos(row, t.idColumn)]>>,
                          found[2] \o <<join(SelectSeq(strs, LAMBDA x : x # BLANK_VALUE))>>>>)

\* Pysheet.keys(headers=False): the loop over the rows met in the order ks
RECURSIVE keysFrom(_, _, _, _)
keysFrom(t, ks, n, found) ==
  IF n > Len(ks) THEN Returned(<<found>>)
  ELSE IF ks[n] = HEADERS_ID THEN keysFrom(t, ks, n + 1, found)
  ELSE IF excludedRaise(t.rows, ks[n], TRUE) # ""
  THEN Raised(excludedRaise(t.rows, ks[n], TRUE), NONE)
  ELSE IF excluded(t.rows, ks[n]) THEN keysFrom(t, ks, n + 1, found)
  ELSE IF ~validIndex(t.rows[ks[n]], t.idColumn) THEN Raised("IndexError", NONE)
  ELSE keysFrom(t, ks, n + 1, found \o <<t.rows[ks[n]][pos(t.rows[ks[n]], t.idColumn)]>>)

\* Pysheet.produceColumn(col, blanks, exclude): one outcome for each order
\* in which the dictionary may yield its rows
produceColumn(t, col, withBlanks, exclude) ==
  LET parsed == parseColumns(t, col)
  IN IF parsed.exc # "" THEN {parsed}
     ELSE IF parsed.val = <<>>
     THEN {keysFrom(t, ks, 1, <<>>) : ks \in Orders(DOMAIN t.rows)}
     ELSE {produceRows(t, parsed.val, withBlanks, exclude, ks, 1, <<<<>>, <<>>>>) :
             ks \in Orders(DOMAIN t.rows)}

-----------------------------------------------------------------------------
(* Inputs *)

ID == <<"I","D">>
H1 == <<"H","1">>
N == <<"N">>
LOCKED == <<"_","_","L">>
MEAN == <<"m","e","a","n">>

\* lists of lines, as a delimited-text reader yields them
Sheet1 == << <<ID, H1>>, << <<"1">>, <<"a">> >>, << <<"2">>, <<"b">> >> >>
Sheet2 == << <<ID, H1>>, << <<"A">>, <<"a">> >>, << <<" ","a">>, <<"b">> >> >>
Sheet3 == << << <<"#","c">>, <<"x">> >>, << <<"q">> >> >>
Sheet4 == << <<ID, H1>>, << HEADERS_ID, <<"x">> >>, << <<"1">>, <<"a">> >> >>
Sheet5 == << << H1, ID, <<"h","1">> >>, << <<"a">>, <<"1">> >>,
             << <<"b">>, <<"2">>, <<"c">>, <<"d">> >> >>
Sheet6 == << << <<"K">>, <<"V">> >>, << <<"2">>, <<"1">> >>, << <<"3">>, <<"c">> >> >>

\* Pysheet(iterable=lines, idColumn=idc, noHeader=noHeader)
Constructions ==
  { <<Sheet1, 0, FALSE>>, <<Sheet1, -1, FALSE>>, <<Sheet1, 0, TRUE>>,
    <<Sheet2, 0, FALSE>>, <<Sheet3, 1, FALSE>>, <<Sheet3, -1, FALSE>>,
    <<Sheet4, 0, FALSE>>, <<Sheet5, 1, FALSE>>, <<Sheet5, 0, FALSE>>,
    <<Sheet5, 2, FALSE>>, <<Sheet6, 0, FALSE>> }

\* load(lines, idColumn=idc)
Loads == { <<<<>>, <<>>>>, <<<<>>, <<-1>>>>, <<Sheet3, <<>>>>, <<Sheet3, <<-1>>>>,
           <<Sheet4, <<0>>>> }

Modes == {SMART_APPEND, APPEND, OVERWRITE, ADD, MEAN}

\* addCell(key, header, value, mode)
AddCells ==
  { <<<<"A">>, NONE, NONE, OVERWRITE>>,
    <<<<"1">>, H1, <<"b">>, APPEND>>,
    <<<<"1">>, H1, <<"1">>, ADD>>,
    <<<<"1">>, ID, <<"3">>, OVERWRITE>>,
    <<<<"A">>, N, <<"a">>, OVERWRITE>>,
    <<<<"A">>, N, <<"a">>, MEAN>>,
    <<<<"1">>, H1, <<"a">>, MEAN>>,
    <<<<"A">>, LOCKED, <<"a">>, SMART_APPEND>>,
    <<HEADERS_ID, H1, <<"a">>, OVERWRITE>>,
    <<HEADERS_ID, N, NONE, OVERWRITE>> }

\* removeCell(key, header)
RemoveCells == { <<<<"1">>, NONE>>, <<<<"1">>, H1>>, <<HEADERS_ID, NONE>>, <<<<"9">>, NONE>> }

\* insertColumn(header, index)
InsertColumns == { <<N, <<1>>>>, <<N, <<0>>>>, <<N, <<>>>>, <<<<"h","1">>, <<1>>>>, <<N, <<9>>>> }

\* removeColumns(cols)
RemoveColumnss == { <<1>>, <<0>>, <<2, 1>>, <<1, 1>>, <<0, -1>> }

\* removeColumns(col) with an integer in place of a list
RemoveColumnsInts == { 0 }

\* rename(newName, header, key)
Renames ==
  { <<<<"2">>, NONE, <<"1">>>>, <<<<"B">>, NONE, <<"A">>>>, <<<<"B">>, NONE, <<"9">>>>,
    <<ID, H1, NONE>>, <<N, <<"z">>, NONE>> }

\* the tables merged in by __add__
Others ==
  { Table(load(Table(clear, 0), 2, Sheet6, <<0>>, FALSE).rows, 0),
    Table(load(Table(clear, 0), 2, Sheet5, <<1>>, FALSE).rows, 1) }

\* consolidate(consolidations, cleanUp, mode)
Consolidates ==
  { << << <<<<"h">>>> >>, FALSE, SMART_APPEND>>,
    << << <<<<"P">>, <<"h">>, <<"v">>>> >>, TRUE, APPEND>>,
    << << <<<<"h">>>> >>, FALSE, MEAN>> }

-----------------------------------------------------------------------------
(* The caller: constructs a table and calls operations on it, one at a time *)

Idle == [name |-> "Pysheet"]

\* the call o of an operation on the table leaves res behind
Call(o, res) ==
  /\ calls' = calls + 1
  /\ op' = o
  /\ before' = [op |-> op, raised |-> raised]
  /\ pre' = Table(rows, idColumn)
  /\ rows' = res.rows
  /\ idColumn' = res.idColumn
  /\ raised' = res.exc
  /\ ret' = NONE

self == Table(rows, idColumn)

Load ==
  /\ calls < MaxCalls
  /\ \E in \in Loads :
       LET res == load(self, MIN_LINE_LEN, in[1], in[2], FALSE)
       IN /\ Call([name |-> "load", lines |-> in[1], idColumn |-> in[2], noHeader |-> FALSE],
                  res)
          /\ MIN_LINE_LEN' = res.minLen
          /\ UNCHANGED <<cellVars, lockVars>>

AddCell ==
  /\ calls < MaxCalls
  /\ \E in \in AddCells :
       /\ Call([name |-> "addCell", key |-> in[1], header |-> in[2], value |-> in[3],
                mode |-> in[4]],
               addCell(self, in[1], in[2], in[3], in[4]))
       /\ UNCHANGED <<MIN_LINE_LEN, cellVars, lockVars>>

RemoveCell ==
  /\ calls < MaxCalls
  /\ \E in \in RemoveCells :
       /\ Call([name |-> "removeCell", key |-> in[1], header |-> in[2]],
               removeCell(self, in[1], in[2]))
       /\ UNCHANGED <<MIN_LINE_LEN, cellVars, lockVars>>

InsertColumn ==
  /\ calls < MaxCalls
  /\ \E in \in InsertColumns :
       /\ Call([name |-> "insertColumn", header |-> in[1], index |-> in[2]],
               insertColumn(self, in[1], in[2]))
       /\ UNCHANGED <<MIN_LINE_LEN, cellVars, lockVars>>

RemoveColumns ==
  /\ calls < MaxCalls
  /\ \/ \E cols \in RemoveColumnss :
          Call([name |-> "removeColumns", cols |-> cols, isList |-> TRUE],
               removeColumns(self, cols))
     \/ \E col \in RemoveColumnsInts :
          Call([name |-> "removeColumns", cols |-> <<col>>, isList |-> FALSE],
               removeColumn(self, col))
  /\ UNCHANGED <<MIN_LINE_LEN, cellVars, lockVars>>

Rename ==
  /\ calls < MaxCalls
  /\ \E in \in Renames :
       /\ Call([name |-> "rename", newName |-> in[1], header |-> in[2], key |-> in[3]],
               rename(self, in[1], in[2], in[3]))
       /\ UNCHANGED <<MIN_LINE_LEN, cellVars, lockVars>>

Combine ==
  /\ calls < MaxCalls
  /\ \E other \in Others :
       /\ Call([name |-> "combine", other |-> other], combine(self, other))
       /\ UNCHANGED <<MIN_LINE_LEN, cellVars, lockVars>>

Contract ==
  /\ calls < MaxCalls
  /\ \E mode \in Modes :
       \E res \in contract(self, mode) :
         /\ Call([name |-> "contract", mode |-> mode], res)
         /\ UNCHANGED <<MIN_LINE_LEN, cellVars, lockVars>>

Consolidate ==
  /\ calls < MaxCalls
  /\ \E in \in Consolidates :
       \E res \in consolidate(self, in[1], in[2], in[3]) :
         /\ Call([name |-> "consolidate", consolidations |-> in[1], cleanUp |-> in[2],
                  mode |-> in[3]], res)
         /\ UNCHANGED <<MIN_LINE_LEN, cellVars, lockVars>>

ZeroFill ==
  /\ calls < MaxCalls
  /\ Call([name |-> "zeroFill"], zeroFill(self))
  /\ UNCHANGED <<MIN_LINE_LEN, cellVars, lockVars>>

\* Pysheet() and Pysheet(iterable=lines, idColumn=idc, noHeader=noHeader)
Constructed(cs) ==
  /\ calls = 0
  /\ \/ /\ rows = clear
        /\ idColumn = 0
        /\ MIN_LINE_LEN = 2
        /\ op = Idle
        /\ raised = ""
     \/ \E c \in cs :
          LET res == load(Table(clear, 0), 2, c[1], <<c[2]>>, c[3])
          IN /\ res.exc = ""
             /\ rows = res.rows
             /\ idColumn = res.idColumn
             /\ MIN_LINE_LEN = res.minLen
             /\ op = [name |-> "load", lines |-> c[1], idColumn |-> <<c[2]>>,
                      noHeader |-> c[3]]
             /\ raised = ""
  /\ before = [op |-> Idle, raised |-> ""]
  /\ ret = NONE
  /\ pre = Table(clear, 0)

InitTable == Constructed(Constructions)

-----------------------------------------------------------------------------
(* The lock file: main() run with --lockFile by several processes on the   *)
(* same data and output file, each writing one cell of its own             *)

\* the processes, named by their pids
Procs == 1..NProcs

\* no lock file; a lock file holds the pid written to it and is stale when
\* it was last modified more than staleSec ago
NoFile == [exists |-> FALSE, text |-> 0, stale |-> FALSE]
LockOf(p) == [exists |-> TRUE, text |-> p, stale |-> FALSE]

InitLock ==
  /\ lockFile = NoFile
  /\ pc = [p \in Procs |-> "isfile"]
  /\ counter = [p \in Procs |-> 1]
  /\ mycsv = [p \in Procs |-> {}]
  /\ dataFile = {}
  /\ savedTo = [p \in Procs |-> ""]

\* p goes to the step at, leaving the files alone
Goto(p, at) ==
  /\ pc' = [pc EXCEPT ![p] = at]
  /\ UNCHANGED <<lockFile, counter, mycsv, dataFile, savedTo, tableVars, cellVars>>

\* "see if there are leftover locks": a lock file older than staleSec is to
\* be removed
Leftover(p) ==
  /\ pc[p] = "isfile"
  /\ Goto(p, IF lockFile.exists /\ lockFile.stale THEN "stale" ELSE "while")

\* os.remove(args.lockFile) of the stale lock; OSError (already removed) is
\* passed over
RemoveStale(p) ==
  /\ pc[p] = "stale"
  /\ lockFile' = NoFile
  /\ pc' = [pc EXCEPT ![p] = "while"]
  /\ UNCHANGED <<counter, mycsv, dataFile, savedTo, tableVars, cellVars>>

\* "while counter < timeoutSec": the lock file is there, so wait
\* (counter += random(); sleep(counter)), or it is not, so attempt a lock
Wait(p) ==
  /\ pc[p] = "while"
  /\ IF counter[p] >= timeoutSec THEN Goto(p, "load")
     ELSE IF lockFile.exists
     THEN /\ counter' = [counter EXCEPT ![p] = @ + 1]
          /\ UNCHANGED <<lockFile, pc, mycsv, dataFile, savedTo, tableVars, cellVars>>
     ELSE Goto(p, "open")

\* open(args.lockFile,'w').write(myPid).  The file is created or truncated
\* and the pid reaches it when the file object is closed; another process
\* in between sees a file that does not hold its own pid either way, and a
\* file removed in between stays removed, which is this step followed by
\* the removal
WritePid(p) ==
  /\ pc[p] = "open"
  /\ lockFile' = LockOf(p)
  /\ pc' = [pc EXCEPT ![p] = "read"]
  /\ UNCHANGED <<counter, mycsv, dataFile, savedTo, tableVars, cellVars>>

\* after sleep(random()): thisPid = open(args.lockFile,'rU').read(); the
\* lock is acquired if it is myPid, else, or on IOError, the loop goes on
ReadPid(p) ==
  /\ pc[p] = "read"
  /\ Goto(p, IF lockFile.exists /\ lockFile.text = p THEN "load" ELSE "while")

\* "lock = False" after the loop when counter >= timeoutSec
lockOff(p) == FALSE
lock(p) == counter[p] < timeoutSec

\* args.out, "out", or after a timeout args.out + "." + myPid, "out.pid"
outAsGiven(p) == "out"
out(p) == IF counter[p] >= timeoutSec THEN "out.pid" ELSE "out"

\* mycsv = Pysheet(args.data[0], ...) and the cell written to it; a
\* PysheetException or a malformed --write ends the process by sys.exit
\* before the lock is released
ReadSheet(p) ==
  /\ pc[p] = "load"
  /\ \/ /\ mycsv' = [mycsv EXCEPT ![p] = dataFile \cup {p}]
        /\ pc' = [pc EXCEPT ![p] = "save"]
     \/ /\ mycsv' = mycsv
        /\ pc' = [pc EXCEPT ![p] = "exit"]
  /\ UNCHANGED <<lockFile, counter, dataFile, savedTo, tableVars, cellVars>>

\* mycsv.save(args.out, ...)
SaveSheet(p) ==
  /\ pc[p] = "save"
  /\ savedTo' = [savedTo EXCEPT ![p] = out(p)]
  /\ dataFile' = IF out(p) = "out" THEN mycsv[p] ELSE dataFile
  /\ pc' = [pc EXCEPT ![p] = IF lock(p) THEN "release" ELSE "done"]
  /\ UNCHANGED <<lockFile, counter, mycsv, tableVars, cellVars>>

\* "if lock: os.remove(args.lockFile)"; OSError on a file that is gone ends
\* the process as well
Release(p) ==
  /\ pc[p] = "release"
  /\ lockFile' = NoFile
  /\ pc' = [pc EXCEPT ![p] = "done"]
  /\ UNCHANGED <<counter, mycsv, dataFile, savedTo, tableVars, cellVars>>

\* time passes: the lock file was last modified more than staleSec ago
Expire ==
  /\ lockFile.exists
  /\ ~lockFile.stale
  /\ lockFile' = [lockFile EXCEPT !.stale = TRUE]
  /\ UNCHANGED <<pc, counter, mycsv, dataFile, savedTo, tableVars, cellVars>>

\* a step of the process p
Step(p) ==
  \/ Leftover(p)
  \/ RemoveStale(p)
  \/ Wait(p)
  \/ WritePid(p)
  \/ ReadPid(p)
  \/ ReadSheet(p)
  \/ SaveSheet(p)
  \/ Release(p)

InitCell ==
  /\ cellA = BLANK_VALUE
  /\ cellB = BLANK_VALUE
  /\ cellMode = OVERWRITE
  /\ cell0 = BLANK_VALUE
  /\ cellRaised = ""
  /\ merges = <<>>

Init == InitTable /\ InitCell /\ InitLock

Next ==
  \/ Load
  \/ AddCell
  \/ RemoveCell
  \/ InsertColumn
  \/ RemoveColumns
  \/ Rename
  \/ Combine
  \/ Contract
  \/ Consolidate
  \/ ZeroFill

Spec == Init /\ [][Next]_vars

-----------------------------------------------------------------------------
(* The Value Merge Policy on its own: a cell that values are merged into *)

\* the values of a cell and of the value merged into it
Cells ==
  { BLANK_VALUE, <<"a">>, <<"b">>, <<"a", ";", "b">>, <<"a", "b">>, <<"1">>, number(1) }

\* cellA = self.mergedValue(cellA, b, mode=mode); a raise leaves cellA as it was
Merge ==
  /\ Len(merges) < MaxMerges
  /\ \E b \in Cells, mode \in Modes :
       LET m == mergedValue(cellA, b, mode)
       IN /\ cellB' = b
          /\ cellMode' = mode
          /\ cellRaised' = m.exc
          /\ cellA' = IF m.exc = "" THEN m.val ELSE cellA
          /\ merges' = Append(merges, [a |-> cellA, b |-> b, mode |-> mode])
  /\ UNCHANGED <<cell0, tableVars, lockVars>>

InitMerge ==
  /\ rows = clear
  /\ idColumn = 0
  /\ MIN_LINE_LEN = 2
  /\ calls = 0
  /\ op = Idle
  /\ before = [op |-> Idle, raised |-> ""]
  /\ ret = NONE
  /\ pre = Table(clear, 0)
  /\ raised = ""
  /\ cell0 \in Cells
  /\ cellA = cell0
  /\ cellB = BLANK_VALUE
  /\ cellMode = OVERWRITE
  /\ cellRaised = ""
  /\ merges = <<>>
  /\ InitLock

SpecMerge == InitMerge /\ [][Merge]_vars

-----------------------------------------------------------------------------
(* Rectangularity *)

Rectangular(r) == \A k \in DOMAIN r : Len(r[k]) = Len(r[HEADERS_ID])

\* C1: after any sequence of load, addCell, removeCell, insertColumn,
\* removeColumns, rename, combine, contract, consolidate and zeroFill, each
\* returning or raising, every row is as long as the header row.
C1_Rectangularity == hasHeaders(rows) => Rectangular(rows)

-----------------------------------------------------------------------------
(* Loading *)

\* the lines of the last load that were not skipped, and its data lines
ingested == SelectSeq(op.lines, LAMBDA line : ~skipped(line, MIN_LINE_LEN))
dataLines == IF op.noHeader \/ ingested = <<>> THEN ingested ELSE Tail(ingested)
\* the ID a data line carries in the ID column
idOf(line) == IF Len(line) > idColumn THEN line[idColumn + 1] ELSE BLANK_VALUE
\* the last load read lines and took the IDs from a column of theirs
loadedWithIds ==
  /\ op.name = "load"
  /\ raised = ""
  /\ op.lines # <<>>
  /\ op.idColumn # <<>>
  /\ op.idColumn[1] >= 0

\* C2: after load, of two lines whose IDs are equal once normalized only the
\* later one is in the table, and there are as many data rows as distinct
\* normalized IDs among the lines read.
C2_IdUniqueness ==
  loadedWithIds =>
    /\ Cardinality(dataKeys(rows))
         = Cardinality({clean(idOf(dataLines[n])) : n \in 1..Len(dataLines)})
    /\ \A n \in 1..Len(dataLines) :
         (\A m \in (n + 1)..Len(dataLines) :
            clean(idOf(dataLines[m])) # clean(idOf(dataLines[n])))
         => /\ clean(idOf(dataLines[n])) \in DOMAIN rows
            /\ rows[clean(idOf(dataLines[n]))][idColumn + 1] = idOf(dataLines[n])

\* the header cells load reads off the first line it does not skip
headerLine == [c \in 1..Len(ingested[1]) |-> strip(str(ingested[1][c]))]

\* C3: the sentinel key never collides with a user ID: whatever lines load
\* reads and whatever key addCell is given, the row under the sentinel key
\* stays the header row: load leaves the header line there, and addCell
\* takes no header away from it.
C3_SentinelNeverCollides ==
  /\ (loadedWithIds /\ ~op.noHeader /\ ingested # <<>>)
       => (hasHeaders(rows) /\ getHeaders(rows) = headerLine)
  /\ (op.name = "addCell" /\ hasHeaders(pre.rows))
       => /\ hasHeaders(rows)
          /\ \A c \in 1..Len(getHeaders(pre.rows)) :
               \E d \in 1..Len(getHeaders(rows)) :
                 getHeaders(rows)[d] = getHeaders(pre.rows)[c]

\* C4: whenever load returns normally, whatever the lines and the requested
\* idColumn, idColumn is an index into the header row.
C4_IdColumnValid ==
  (op.name = "load" /\ raised = "")
    => (hasHeaders(rows) /\ 0 <= idColumn /\ idColumn < len(rows))

-----------------------------------------------------------------------------
(* Combining two tables *)

\* the last call combined two rectangular tables
combinedRectangular ==
  /\ op.name = "combine"
  /\ hasHeaders(pre.rows)
  /\ Rectangular(pre.rows)
  /\ hasHeaders(op.other.rows)
  /\ Rectangular(op.other.rows)

\* C5: combine(A, B) on rectangular tables of widths wA and wB leaves in A
\* the keys of A and of B, rows of width wA + wB, a row only in A followed by
\* wB blanks, a row only in B after wA blanks, and a row in both as A's row
\* followed by B's row.
C5_Combine ==
  combinedRectangular =>
    LET A == pre.rows
        B == op.other.rows
        wA == len(A)
        wB == len(B)
    IN /\ DOMAIN rows = DOMAIN A \cup DOMAIN B
       /\ len(rows) = wA + wB
       /\ \A k \in dataKeys(rows) :
            /\ Len(rows[k]) = wA + wB
            /\ (k \in DOMAIN A /\ k \notin DOMAIN B)
                 => rows[k] = A[k] \o [c \in 1..wB |-> BLANK_VALUE]
            /\ (k \notin DOMAIN A /\ k \in DOMAIN B)
                 => rows[k] = [c \in 1..wA |-> BLANK_VALUE] \o B[k]
            /\ (k \in DOMAIN A /\ k \in DOMAIN B)
                 => rows[k] = A[k] \o B[k]

\* a combine that met a row of each kind
C5_Witness ==
  /\ combinedRectangular
  /\ raised = ""
  /\ \E k \in dataKeys(rows) : k \in DOMAIN pre.rows /\ k \notin DOMAIN op.other.rows
  /\ \E k \in dataKeys(rows) : k \notin DOMAIN pre.rows /\ k \in DOMAIN op.other.rows
  /\ \E k \in dataKeys(rows) : k \in DOMAIN pre.rows /\ k \in DOMAIN op.other.rows

\* the normalized name of a header: lock marker stripped, case folded
normalized(header) == unlock(lower(header))

\* the last call was a contract, with a valid mode, of what combine left of
\* two rectangular tables
contractedCombined ==
  /\ op.name = "contract"
  /\ lower(op.mode) \in ValidModes
  /\ before.op.name = "combine"
  /\ raised = ""
  /\ hasHeaders(pre.rows)
  /\ Rectangular(pre.rows)
  /\ 0 <= pre.idColumn
  /\ pre.idColumn < len(pre.rows)

\* C6: after combine(A, B) the header at wA + B.idColumn is A's ID header,
\* and a contract after that folds the two ID columns into one: one column
\* carries that normalized name, it is the one at idColumn, and every data
\* row holds its own ID there.
C6_IdColumnsFold ==
  /\ (combinedRectangular /\ raised = "" /\ 0 <= pre.idColumn /\ pre.idColumn < len(pre.rows))
       => getHeaders(rows)[len(pre.rows) + op.other.idColumn + 1]
            = getHeaders(pre.rows)[pre.idColumn + 1]
  /\ contractedCombined
       => /\ hasHeaders(rows)
          /\ 0 <= idColumn
          /\ idColumn < len(rows)
          /\ \A c \in 1..len(rows) :
               normalized(getHeaders(rows)[c])
                   = normalized(getHeaders(pre.rows)[pre.idColumn + 1])
                 <=> c = idColumn + 1
          /\ \A k \in dataKeys(rows) :
               /\ Len(rows[k]) > idColumn
               /\ clean(rows[k][idColumn + 1]) = k

-----------------------------------------------------------------------------
(* Contracting *)

\* the last two calls were contracts with the same valid mode
contractedTwice ==
  /\ op.name = "contract"
  /\ lower(op.mode) \in ValidModes
  /\ before.op.name = "contract"
  /\ before.op.mode = op.mode

\* C7: contract is idempotent: for every valid mode a second contract leaves
\* headers, rows and idColumn as the first one left them, and after one
\* contract no two columns have the same normalized header name.
C7_ContractIdempotent ==
  /\ contractedTwice => Table(rows, idColumn) = pre
  /\ (op.name = "contract" /\ lower(op.mode) \in ValidModes /\ hasHeaders(rows))
       => \A c, d \in 1..len(rows) :
            normalized(getHeaders(rows)[c]) = normalized(getHeaders(rows)[d]) => c = d

-----------------------------------------------------------------------------
(* Value Merge Policy laws *)

\* the last merge of the chain: mergedValue(lastMerge.a, lastMerge.b, lastMerge.mode)
lastMerge == merges[Len(merges)]

\* C8: blank is a two-sided identity: for every valid mode
\* mergedValue(blank, b, mode) = b and mergedValue(a, blank, mode) = a.
C8_BlankIdentity ==
  (merges # <<>> /\ lower(lastMerge.mode) \in ValidModes) =>
    /\ lastMerge.a = BLANK_VALUE => (cellRaised = "" /\ cellA = lastMerge.b)
    /\ lastMerge.b = BLANK_VALUE => (cellRaised = "" /\ cellA = lastMerge.a)

\* a value merged into a blank cell, and a blank merged into a value, in the
\* modes that would otherwise overwrite and add
C8_Witness ==
  /\ Len(merges) = 2
  /\ merges[1].a = BLANK_VALUE
  /\ merges[1].b = number(1)
  /\ merges[1].mode = ADD
  /\ merges[2].a = number(1)
  /\ merges[2].b = BLANK_VALUE
  /\ merges[2].mode = OVERWRITE
  /\ cellRaised = ""
  /\ cellA = number(1)

\* the ';'-separated components of a cell
components(cell) == split(str(cell), APPEND_CHAR)
distinct(seq) == \A i, j \in 1..Len(seq) : seq[i] = seq[j] => i = j

\* C9: smart_append never duplicates a ';'-component: if the components of a
\* are pairwise distinct so are those of mergedValue(a, b, 'smart_append'),
\* also after a chain of such merges.
C9_SmartAppendNoDuplicates ==
  (/\ merges # <<>>
   /\ \A n \in 1..Len(merges) : merges[n].mode = SMART_APPEND
   /\ distinct(components(cell0)))
    => distinct(components(cellA))

-----------------------------------------------------------------------------
(* Unknown merge modes *)

\* C10: an unknown mode is rejected without partial effect: mergedValue
\* raises, and addCell, contract and consolidate raise and leave headers,
\* rows and idColumn as they were before the call.
C10_UnknownModeRejected ==
  /\ (merges # <<>> /\ lower(cellMode) \notin ValidModes) => cellRaised # ""
  /\ (op.name \in {"addCell", "contract", "consolidate"}
        /\ lower(op.mode) \notin ValidModes)
       => (raised # "" /\ Table(rows, idColumn) = pre)

-----------------------------------------------------------------------------
(* Queries: operations that return a value and leave the table alone *)

\* headerIndex(header)
HeaderIndexes ==
  { NONE, H1, <<" ", "h", "1", " ">>, <<"_", "_", "i", "d">>, <<"_", "_", "l">>,
    <<"z">>, <<>>, <<"0">>, <<" ", "1">>, <<"_", "_", "2">>, <<"9">>, <<"-", "1">> }

\* Pysheet.headerIndex(header) as a call: what it raises or returns
headerIndexCall(r, header) ==
  IF header = NONE THEN Returned(-1)
  ELSE IF headersRaise(r) # "" THEN Raised(headersRaise(r), NONE)
  ELSE Returned(headerIndex(r, header))

\* no query has been asked of the table yet; a query changes nothing a
\* later query could see, so each query is asked of the table as constructed
unasked == op.name \in {"Pysheet", "load"}

\* the query o of the table returns or raises res
Ask(o, res) ==
  /\ op' = o
  /\ pre' = Table(rows, idColumn)
  /\ raised' = res.exc
  /\ ret' = res.val
  /\ before' = [op |-> op, raised |-> raised]
  /\ UNCHANGED <<rows, idColumn, MIN_LINE_LEN, calls, cellVars, lockVars>>

HeaderIndex ==
  /\ unasked
  /\ \E header \in HeaderIndexes :
       Ask([name |-> "headerIndex", header |-> header], headerIndexCall(rows, header))

Age == <<"A","g","e">>

\* sheets with a numeric column, equal values, a blank cell and the exclude
\* column
Sheet7 == << <<ID, Age>>, << <<"a">>, <<"2","0">> >>, << <<"b">>, <<"0">> >>,
             << <<"c">>, <<"-","5">> >>, << <<"d">>, <<"2","0">> >> >>
Sheet8 == << <<ID, Age, H1, EXCLUDE_HEADER>>,
             << <<"a">>, <<"2","0">>, <<"a">>, <<>> >>,
             << <<"b">>, <<"1","5">>, <<"b">>, <<"x">> >>,
             << <<"c">>, <<>>, <<"a","b">>, <<>> >>,
             << <<"d">>, <<"7">>, <<"a">>, <<>> >> >>
Sheet9 == << <<ID, H1>>, << <<"2">>, <<"x">> >>, << <<"1">>, <<"x">> >>,
             << <<"3">>, <<"U","N","I","Q","U","E">> >>,
             << <<"4">>, <<"U","N","I","Q","U","E">> >> >>

QueryConstructions == { <<Sheet7, 0, FALSE>>, <<Sheet8, 0, FALSE>>, <<Sheet9, 0, FALSE>> }

\* column specifications
Columnss ==
  { <<>>, <<H1>>, <<<<"1">>>>, <<ALL>>, <<ALL, <<"1">>>>,
    <<<<"0","-","1">>>>, <<<<"1","-">>>>, <<<<"9","-">>>>, <<<<"1","-","0">>>>,
    <<<<"0","-","9">>>>, <<<<"z">>>>, <<<<"1">>, <<"z">>>>,
    <<<<"1","<",">","5">>>>, <<<<"1",">">>>>, <<<<"z",">","5">>>>,
    <<<<"A","g","e",">","0">>>>, <<<<"A","g","e",">","-","5">>>>,
    <<<<"A","g","e",">","1","3">>>>, <<<<"A","g","e","<","2","0">>>>,
    <<<<"A","g","e","<","0">>>>,
    <<<<"A","g","e","=","2","0">>>>, <<<<"A","g","e","!","2","0">>>>,
    <<<<"A","g","e","=","0">>>>, <<<<"A","g","e","!","0">>>>,
    <<<<"A","g","e",">","1","3">>, <<"H","1","~","b">>>>,
    <<<<"A","g","e",">","5">>, <<"A","g","e","<","2","0">>>>,
    <<<<"A","g","e",">","0">>, <<"A","g","e","<","2","0">>>>,
    <<<<"A","g","e",">","5">>, <<"H","1","+","c">>>>,
    <<<<"A","g","e","=","U","N","I","Q","U","E">>>>,
    <<<<"H","1","=","U","N","I","Q","U","E">>>> }

\* getColumns(cols, blanks, exclude) and produceColumn(col, blanks, exclude)
Extractions == Columnss \X BOOLEAN \X BOOLEAN

ParseColumns ==
  /\ unasked
  /\ \E cols \in Columnss :
       Ask([name |-> "parseColumns", cols |-> cols], parseColumns(self, cols))

GetColumns ==
  /\ unasked
  /\ \E in \in Extractions :
       \E res \in getColumns(self, in[1], in[2], in[3]) :
         Ask([name |-> "getColumns", cols |-> in[1], blanks |-> in[2], exclude |-> in[3]],
             res)

ProduceColumn ==
  /\ unasked
  /\ \E in \in Extractions :
       \E res \in produceColumn(self, in[1], in[2], in[3]) :
         Ask([name |-> "produceColumn", cols |-> in[1], blanks |-> in[2],
              exclude |-> in[3]], res)

\* Pysheet.excluded(key) as a call: what it raises or returns
excludedCall(r, key) ==
  IF key # HEADERS_ID /\ clean(key) \in DOMAIN r /\ excludedRaise(r, clean(key), TRUE) # ""
  THEN Raised(excludedRaise(r, clean(key), TRUE), NONE)
  ELSE Returned(excluded(r, key))

\* Pysheet.keys(headers=False, exclude=True, lockedRows=False): the loop over
\* the rows met in the order ks
RECURSIVE idsFrom(_, _, _, _)
idsFrom(t, ks, n, found) ==
  IF n > Len(ks) THEN Returned(found)
  ELSE IF ks[n] = HEADERS_ID \/ isLocked(ks[n]) THEN idsFrom(t, ks, n + 1, found)
  ELSE IF excludedRaise(t.rows, ks[n], TRUE) # ""
  THEN Raised(excludedRaise(t.rows, ks[n], TRUE), NONE)
  ELSE IF excluded(t.rows, ks[n]) THEN idsFrom(t, ks, n + 1, found)
  ELSE IF ~validIndex(t.rows[ks[n]], t.idColumn) THEN Raised("IndexError", NONE)
  ELSE idsFrom(t, ks, n + 1, found \o <<t.rows[ks[n]][pos(t.rows[ks[n]], t.idColumn)]>>)

\* Pysheet.getIds(): one outcome for each order in which the dictionary may
\* yield its rows
getIds(t) == {idsFrom(t, ks, 1, <<>>) : ks \in Orders(DOMAIN t.rows)}

\* excluded(key)
Excludeds == { <<"a">>, <<" ", "B">>, <<"c">>, <<"1">>, <<"9">>, HEADERS_ID }

Excluded ==
  /\ unasked
  /\ \E key \in Excludeds :
       Ask([name |-> "excluded", key |-> key], excludedCall(rows, key))

GetIds ==
  /\ unasked
  /\ \E res \in getIds(self) :
       Ask([name |-> "getIds"], res)

\* the tables queried: Pysheet(iterable=lines, idColumn=idc, noHeader=noHeader)
InitQuery == Constructed(Constructions \cup QueryConstructions) /\ InitCell /\ InitLock

NextQuery ==
  \/ HeaderIndex
  \/ ParseColumns
  \/ GetColumns
  \/ ProduceColumn
  \/ Excluded
  \/ GetIds

SpecQuery == InitQuery /\ [][NextQuery]_vars

-----------------------------------------------------------------------------
(* Looking up headers *)

\* the header names of the table that equal header ignoring case,
\* surrounding whitespace and the lock marker, as 0-based indexes
matching(header) ==
  {i \in 0..(len(rows) - 1) :
     normalized(strip(getHeaders(rows)[i + 1])) = normalized(strip(str(header)))}

\* header, normalized, is a non-negative integer string below the header length
isColumnNumber(header) ==
  /\ isdigit(normalized(strip(str(header))))
  /\ int(normalized(strip(str(header)))) < len(rows)

-----------------------------------------------------------------------------
(* Inserting and removing columns *)

\* the last call was an insertColumn on a rectangular table, and it returned
insertedColumn ==
  /\ op.name = "insertColumn"
  /\ raised = ""
  /\ hasHeaders(pre.rows)
  /\ Rectangular(pre.rows)

\* a column of the table before the call has the normalized name of the
\* column to insert
nameExists ==
  \E c \in 1..len(pre.rows) :
    normalized(getHeaders(pre.rows)[c]) = normalized(str(op.header))

\* row is old with the cell v inserted at the 0-based position p
insertedAt(row, old, p, v) ==
  /\ Len(row) = Len(old) + 1
  /\ p <= Len(old)
  /\ row[p + 1] = v
  /\ \A c \in 1..Len(old) : row[IF c <= p THEN c ELSE c + 1] = old[c]

\* C12: insertColumn(name, index) on a rectangular table leaves the table
\* unchanged if a column with the same normalized name exists; otherwise
\* every row, the header included, grows by one cell at position index,
\* blank in the data rows and the lock-prefixed name in the header, all
\* other cells keeping their values and order.
C12_InsertColumn ==
  insertedColumn =>
    /\ nameExists => Table(rows, idColumn) = pre
    /\ ~nameExists =>
         /\ DOMAIN rows = DOMAIN pre.rows
         /\ \E p \in (IF op.index = <<>> THEN 0..len(pre.rows) ELSE {op.index[1]}) :
              \A k \in DOMAIN rows :
                insertedAt(rows[k], pre.rows[k], p,
                           IF k = HEADERS_ID
                           THEN <<"_", "_">> \o unlock(strip(str(op.header)))
                           ELSE BLANK_VALUE)

\* a column inserted at index 1 of a table with data rows
C12_Witness ==
  /\ insertedColumn
  /\ ~nameExists
  /\ op.index = <<1>>
  /\ dataKeys(rows) # {}
  /\ getHeaders(rows)[2] = <<"_", "_">> \o op.header
  /\ len(rows) >= 3

\* the last call was an insertColumn or a removeColumns that returned
restructured ==
  /\ op.name \in {"insertColumn", "removeColumns"}
  /\ raised = ""

\* C13: after any successful insertColumn (at any index, also at or before
\* idColumn) or removeColumns (in any order, with duplicates), the header at
\* idColumn and every row's cell at idColumn are what they were before the
\* call.
C13_IdColumnStable ==
  restructured =>
    /\ DOMAIN rows = DOMAIN pre.rows
    /\ \A k \in DOMAIN rows :
         (0 <= pre.idColumn /\ pre.idColumn < Len(pre.rows[k]))
           => /\ 0 <= idColumn /\ idColumn < Len(rows[k])
              /\ rows[k][idColumn + 1] = pre.rows[k][pre.idColumn + 1]

\* a column inserted at the position of the ID column of a table with data
\* rows, which moves the ID column one to the right
C13_Witness ==
  /\ restructured
  /\ op.name = "insertColumn"
  /\ op.index = <<pre.idColumn>>
  /\ idColumn = pre.idColumn + 1
  /\ dataKeys(rows) # {}
  /\ \A k \in DOMAIN rows : Len(rows[k]) = Len(pre.rows[k]) + 1 /\ idColumn < Len(rows[k])

\* columns before the ID column removed, given out of order or twice
C13_WitnessRemove ==
  /\ restructured
  /\ op.name = "removeColumns"
  /\ idColumn < pre.idColumn
  /\ dataKeys(rows) # {}

\* the last call was a removeColumns whose indices include the ID column
removedIdColumn ==
  /\ op.name = "removeColumns"
  /\ \E i \in 1..Len(op.cols) : op.cols[i] = pre.idColumn

\* C14: removeColumns fails whenever one of the given indices equals
\* idColumn, whatever other indices come with it, and then no column is
\* removed and idColumn keeps its value.
C14_IdColumnNotRemovable ==
  removedIdColumn =>
    /\ raised # ""
    /\ Table(rows, idColumn) = pre

-----------------------------------------------------------------------------
(* Renaming and deleting rows *)

\* the last call was rename(newName, key=k) for the key of a data row
renamedRow ==
  /\ op.name = "rename"
  /\ op.header = NONE
  /\ op.key # NONE
  /\ clean(sanitize(op.key)) \in dataKeys(pre.rows)

\* the normalized new name is already the key of a different row
newKeyTaken ==
  /\ clean(sanitize(op.newName)) \in DOMAIN pre.rows
  /\ clean(sanitize(op.newName)) # clean(sanitize(op.key))

\* C15: rename(newName, key=k) re-keys the row under the normalized newName,
\* and fails, leaving both rows intact, if the normalized newName is already
\* the key of a different row; it never silently overwrites an existing row.
C15_RenameNoOverwrite ==
  renamedRow =>
    /\ newKeyTaken => (raised # "" /\ Table(rows, idColumn) = pre)
    /\ (~newKeyTaken /\ raised = "") =>
         /\ DOMAIN rows = (DOMAIN pre.rows \ {clean(sanitize(op.key))})
                             \cup {clean(sanitize(op.newName))}
         /\ \A k \in DOMAIN pre.rows \ {clean(sanitize(op.key))} : rows[k] = pre.rows[k]

\* del sheet[key]
Deletes == { <<"1">>, <<"9">>, <<" ", "B">>, HEADERS_ID }

Delete ==
  /\ calls < MaxCalls
  /\ \E key \in Deletes :
       /\ Call([name |-> "delete", key |-> key], delitem(self, key))
       /\ UNCHANGED <<MIN_LINE_LEN, cellVars, lockVars>>

\* the calls that delete rows, on every constructed table
InitDelete == Init
NextDelete == \/ Delete
              \/ RemoveCell
SpecDelete == InitDelete /\ [][NextDelete]_vars

\* the last call was a delete, or a removeCell that names no column
deletedRow ==
  \/ op.name = "delete"
  \/ op.name = "removeCell" /\ op.header = NONE

\* C16: deleting an ID that is not in the table is a silent no-op (no error,
\* table unchanged), and the header row cannot be deleted: it is present
\* after any delete or removeCell call.
C16_DeleteKeepsHeader ==
  /\ (deletedRow /\ clean(op.key) \notin DOMAIN pre.rows)
       => (raised = "" /\ Table(rows, idColumn) = pre)
  /\ (op.name \in {"delete", "removeCell"} /\ hasHeaders(pre.rows))
       => hasHeaders(rows)

-----------------------------------------------------------------------------
(* Column specifications *)

\* the token c names a column of the table: a header, ignoring case,
\* surrounding whitespace and the lock marker, or a column number in range
namesColumn(c) ==
  \/ \E i \in 1..len(rows) : normalized(strip(getHeaders(rows)[i])) = normalized(strip(c))
  \/ isdigit(normalized(strip(c))) /\ int(normalized(strip(c))) < len(rows)

\* the token c is a range 'a-b' with a <= b inside the table, or 'a-' with a
\* inside the table
namesRange(c) ==
  \E i \in 1..Len(c) :
    /\ c[i] = "-"
    /\ isdigit(SubSeq(c, 1, i - 1))
    /\ int(SubSeq(c, 1, i - 1)) < len(rows)
    /\ \/ i = Len(c)
       \/ /\ isdigit(SubSeq(c, i + 1, Len(c)))
          /\ int(SubSeq(c, 1, i - 1)) <= int(SubSeq(c, i + 1, Len(c)))
          /\ int(SubSeq(c, i + 1, Len(c))) < len(rows)

\* the token c is a column, one operator character and a non-empty argument
namesPredicate(c) ==
  /\ Cardinality({o \in {"<", ">", "=", "!", "~", "+"} : \E i \in 1..Len(c) : c[i] = o}) = 1
  /\ \E i \in 1..Len(c) :
       /\ c[i] \in {"<", ">", "=", "!", "~", "+"}
       /\ \A j \in 1..(i - 1) : c[j] \notin {"<", ">", "=", "!", "~", "+"}
       /\ namesColumn(SubSeq(c, 1, i - 1))
       /\ i < Len(c)

unparseable(c) == c # ALL /\ ~namesColumn(c) /\ ~namesRange(c) /\ ~namesPredicate(c)

\* the last call handed a column specification to parseColumns, on a table
\* whose header row can be searched
parsed ==
  /\ op.name \in {"parseColumns", "produceColumn", "getColumns"}
  /\ headersRaise(rows) = ""

\* C17: if any token of a column specification cannot be parsed (unknown
\* header, out-of-range or descending range, more than one distinct operator
\* character, operator with empty argument or unknown column), parseColumns,
\* produceColumn and getColumns raise the invalid-column error naming that
\* token, return no partial result, and leave the table unchanged.
C17_ParseAllOrNothing ==
  (parsed /\ \E i \in 1..Len(op.cols) : unparseable(op.cols[i])) =>
    /\ raised = "PysheetException"
    /\ \E i \in 1..Len(op.cols) : unparseable(op.cols[i]) /\ ret = op.cols[i]
    /\ Table(rows, idColumn) = pre

\* the last call was a getColumns that returned
extracted ==
  /\ op.name = "getColumns"
  /\ raised = ""

\* the one column the last call asked for, as [col, op, arg]
asked == parseColumns(pre, op.cols).val[1]

\* the last call was a getColumns for one token '<col><operator><n>' with a
\* comparison operator and a number n, and it returned
compared ==
  /\ extracted
  /\ Len(op.cols) = 1
  /\ Len(parseColumns(pre, op.cols).val) = 1
  /\ asked.op \in {"<", ">", "=", "!"}
  /\ isNumber(asked.arg)

\* the number v stands in the relation o to the number n
holds(v, o, n) ==
  \/ o = ">" /\ v > n
  \/ o = "<" /\ v < n
  \/ o = "=" /\ v = n
  \/ o = "!" /\ v # n

\* the records of the data rows in the result of getColumns
records == {ret[n] : n \in 2..Len(ret)}

\* the data rows the last call looked at: all, or those not excluded
candidates == {k \in dataKeys(rows) : ~(op.exclude /\ excluded(rows, k))}

\* C18: for a token '<col>><n>' with any number n, 0 and negative numbers
\* included, getColumns returns exactly the data rows whose value at col,
\* taken as a number, is greater than n, and renders the column's header as
\* '<col>><n>'; likewise for '<', '=' and '!'.  Stated for the rows whose
\* cell at col is a number.
C18_ComparisonPredicates ==
  compared =>
    /\ ret[1][2] = unlock(getHeaders(rows)[asked.col + 1]) \o <<asked.op>> \o str(asked.arg)
    /\ \A k \in candidates :
         isNumber(tryNumber(rows[k][asked.col + 1])) =>
           ((\E rec \in records : rec[1] = rows[k][idColumn + 1])
              <=> holds(valueOf(tryNumber(rows[k][asked.col + 1])), asked.op,
                        valueOf(asked.arg)))

\* the columns the last getColumns resolved, as [col, op, arg]
resolved ==
  IF parseColumns(pre, op.cols).val = <<>>
  THEN plain(allColumns(rows, idColumn))
  ELSE parseColumns(pre, op.cols).val

\* the cell fails the predicate e: a comparison of a number with a number,
\* of a string with a string, or a containment (UNIQUE is no comparison)
fails(e, cell) ==
  \/ /\ e.op \in {"<", ">", "=", "!"}
     /\ isNumber(e.arg)
     /\ isNumber(tryNumber(cell))
     /\ ~holds(valueOf(tryNumber(cell)), e.op, valueOf(e.arg))
  \/ /\ e.op = "="
     /\ ~isNumber(e.arg)
     /\ e.arg # UNIQUE
     /\ ~isNumber(tryNumber(cell))
     /\ cell # e.arg
  \/ /\ e.op = "!"
     /\ ~isNumber(e.arg)
     /\ cell = e.arg
  \/ /\ e.op = "~"
     /\ e.arg # UNIQUE
     /\ ~contains(str(cell), str(e.arg))

\* C19: for a specification with several predicates getColumns drops a data
\* row as soon as it fails any one of them; no returned record contains the
\* filtered marker; the header record is the first element of the result;
\* and every returned record is its row's ID followed by one value for each
\* resolved column.
C19_MultiPredicate ==
  extracted =>
    /\ \A n \in 1..Len(ret) : \A j \in 1..Len(ret[n]) : ret[n][j] # FLAG_VALUE
    /\ ret # <<>>
    /\ ret[1][1] = getHeaders(rows)[pos(getHeaders(rows), idColumn)]
    /\ \A n \in 1..Len(ret) : Len(ret[n]) = 1 + Len(resolved)
    /\ \A n \in 2..Len(ret) :
         \E k \in dataKeys(rows) : ret[n][1] = rows[k][pos(rows[k], idColumn)]
    /\ Len(op.cols) >= 2 =>
         \A k \in candidates :
           (\E j \in 1..Len(resolved) : fails(resolved[j], rows[k][resolved[j].col + 1]))
             => ~\E rec \in records : rec[1] = rows[k][pos(rows[k], idColumn)]

-----------------------------------------------------------------------------
(* UNIQUE *)

\* the last call was a getColumns for the one token '<col>=UNIQUE' that
\* returned, on a table loaded from lines with a header line and the IDs in
\* column 0
uniqued ==
  /\ extracted
  /\ Len(op.cols) = 1
  /\ Len(resolved) = 1
  /\ resolved[1].arg = UNIQUE
  /\ before.op.name = "load"
  /\ before.op.idColumn = <<0>>
  /\ ~before.op.noHeader

\* the line that inserted the row k into the dictionary
insertedBy(k) ==
  CHOOSE i \in 2..Len(before.op.lines) :
    /\ clean(before.op.lines[i][1]) = k
    /\ \A j \in 2..(i - 1) : clean(before.op.lines[j][1]) # k

\* the data rows getColumns would return without the UNIQUE argument
accepted ==
  {k \in candidates : op.blanks \/ rows[k][resolved[1].col + 1] # BLANK_VALUE}

\* C20: with the argument UNIQUE on a column, getColumns returns at most one
\* data row for each distinct value of the column, and the row kept for a
\* value is the first in insertion order among the rows that would otherwise
\* be accepted.
C20_Unique ==
  uniqued =>
    /\ \A n, m \in 2..Len(ret) : n # m => ret[n][2] # ret[m][2]
    /\ \A n \in 2..Len(ret) :
         \A k, k2 \in accepted :
           (rows[k][1] = ret[n][1] /\ rows[k2][resolved[1].col + 1] = ret[n][2])
             => insertedBy(k) <= insertedBy(k2)

-----------------------------------------------------------------------------
(* Hybrid columns *)

\* the last call was a produceColumn that returned
produced ==
  /\ op.name = "produceColumn"
  /\ raised = ""

\* the columns the last produceColumn resolved, as [col, op, arg]
joinedColumns == parseColumns(pre, op.cols).val

\* the values the data row k contributes, in the order of the specification
contributions(k) ==
  [j \in 1..Len(joinedColumns) |->
     IF accepts(joinedColumns[j], rows[k][joinedColumns[j].col + 1])
     THEN rows[k][joinedColumns[j].col + 1]
     ELSE BLANK_VALUE]

\* the non-blank contributions of the data row k joined by underscores
hybridOf(k) ==
  join(SelectSeq([j \in 1..Len(joinedColumns) |-> str(contributions(k)[j])],
                 LAMBDA x : x # BLANK_VALUE))

\* C21: produceColumn(spec, blanks, exclude) returns two parallel sequences
\* of equal length, the IDs and the hybrids, with one entry for each
\* non-header row (without the excluded rows when exclude is set); each
\* hybrid is the underscore-join, in the order of the specification, of the
\* row's non-blank contributing values; and with blanks=False no returned
\* row has a blank contribution in any resolved column.
C21_ProduceColumn ==
  produced =>
    /\ Len(ret) = 2
    /\ Len(ret[1]) = Len(ret[2])
    /\ op.blanks => Len(ret[1]) = Cardinality(candidates)
    /\ \A n \in 1..Len(ret[1]) :
         \E k \in candidates :
           /\ ret[1][n] = rows[k][pos(rows[k], idColumn)]
           /\ ret[2][n] = hybridOf(k)
           /\ ~op.blanks => \A j \in 1..Len(joinedColumns) : contributions(k)[j] # BLANK_VALUE

-----------------------------------------------------------------------------
(* Exclusion *)

\* the table has an exclude column and the cell of the data row k there is
\* not blank
flagged(k) ==
  /\ k \in dataKeys(rows)
  /\ headerIndex(rows, EXCLUDE_HEADER) >= 0
  /\ rows[k][headerIndex(rows, EXCLUDE_HEADER) + 1] \notin {BLANK_VALUE, NONE}

\* the IDs in the result of the last call
returnedIds ==
  IF op.name = "getColumns" THEN {ret[n][1] : n \in 2..Len(ret)}
  ELSE IF op.name = "getIds" THEN {ret[n] : n \in 1..Len(ret)}
  ELSE IF op.name = "produceColumn" /\ ret # <<>> THEN {ret[1][n] : n \in 1..Len(ret[1])}
  ELSE {}

\* the last call returned rows with the excluded rows left out
excluding ==
  /\ raised = ""
  /\ \/ op.name \in {"getColumns", "produceColumn"} /\ op.exclude
     \/ op.name = "getIds"

C22_WitnessExcluded ==
  /\ op.name = "excluded"
  /\ raised = ""
  /\ ret = TRUE

-----------------------------------------------------------------------------
(* Consolidating columns *)

C1 == <<"c","1">>
A1 == <<"a","1">>
P == <<"P">>

\* sheets with two source columns, a blank cell, and a row flagged in the
\* exclude column
Sheet10 == << <<ID, C1, A1>>, << <<"1">>, <<"x">>, <<"y">> >>,
              << <<"2">>, <<>>, <<"3">> >>, << <<"3">>, <<"4">>, <<"3">> >> >>
Sheet11 == << <<ID, C1, A1, EXCLUDE_HEADER>>,
              << <<"1">>, <<"x">>, <<"y">>, <<>> >>,
              << <<"2">>, <<"p">>, <<"q">>, <<"x">> >> >>

ConsolidateConstructions == { <<Sheet10, 0, FALSE>>, <<Sheet11, 0, FALSE>> }

\* consolidate([[target, keyword, ...]], cleanUp, mode)
Foldings ==
  { << <<P, <<"c">>, <<"a">>>> >>, << <<P, <<"a">>, <<"c">>>> >>,
    << <<P, <<"A">>>> >>, << <<P, <<"z">>>> >> }
    \X BOOLEAN \X {SMART_APPEND, APPEND, ADD}

Fold ==
  /\ calls < MaxCalls
  /\ \E in \in Foldings :
       \E res \in consolidate(self, in[1], in[2], in[3]) :
         /\ Call([name |-> "consolidate", consolidations |-> in[1], cleanUp |-> in[2],
                  mode |-> in[3]], res)
         /\ UNCHANGED <<MIN_LINE_LEN, cellVars, lockVars>>

InitConsolidate == Constructed(ConsolidateConstructions) /\ InitCell /\ InitLock

NextConsolidate == Fold

SpecConsolidate == InitConsolidate /\ [][NextConsolidate]_vars

\* the target and the keywords of the one consolidation of the last call
target == op.consolidations[1][1]
keywordsGiven == keywords(op.consolidations[1])

\* the last call was a consolidate([[target, keyword, ...]]) that returned,
\* on a rectangular table that had no column named target
consolidated ==
  /\ op.name = "consolidate"
  /\ raised = ""
  /\ Len(op.consolidations) = 1
  /\ Len(op.consolidations[1]) >= 2
  /\ Rectangular(pre.rows)
  /\ headerIndex(pre.rows, target) = -1

\* the source columns of the table before the call, from left to right: the
\* non-locked columns whose lower-cased header contains a keyword
sources ==
  SelectSeq(range(0, len(pre.rows)),
            LAMBDA i : /\ ~isLocked(getHeaders(pre.rows)[i + 1])
                       /\ \E n \in 1..Len(keywordsGiven) :
                            contains(lower(getHeaders(pre.rows)[i + 1]), keywordsGiven[n]))

\* the fold of mergedValue, from the left, over the cells of row at the
\* columns cs from the n-th on, starting from acc
RECURSIVE folded(_, _, _, _, _)
folded(acc, row, cs, n, mode) ==
  IF n > Len(cs) THEN acc
  ELSE folded(mergedValue(acc, row[cs[n] + 1], mode).val, row, cs, n + 1, mode)

\* C23: consolidate([[target, kw1, kw2, ...]]) inserts a locked target
\* column and, for every data row of the table, excluded or not, sets the
\* target cell to the left-to-right fold, by mergedValue with the chosen
\* mode, of the row's cells in every non-locked, non-target column whose
\* lower-cased header contains one of the keywords; with cleanUp those
\* source columns are then removed.
C23_Consolidate ==
  consolidated =>
    /\ headerIndex(rows, target) >= 0
    /\ getHeaders(rows)[headerIndex(rows, target) + 1] = lockedName(target)
    /\ \A k \in dataKeys(pre.rows) :
         /\ k \in DOMAIN rows
         /\ rows[k][headerIndex(rows, target) + 1]
              = folded(BLANK_VALUE, pre.rows[k], sources, 1, op.mode)
    /\ len(rows) = len(pre.rows) + 1 - (IF op.cleanUp THEN Len(sources) ELSE 0)
    /\ op.cleanUp =>
         \A i \in 1..Len(sources) :
           headerIndex(rows, getHeaders(pre.rows)[sources[i] + 1]) = -1

-----------------------------------------------------------------------------
(* Saving and reloading *)

\* keys.sort(): the strings of ks in ascending order
RECURSIVE sorted(_)
sorted(ks) ==
  IF ks = {} THEN <<>>
  ELSE LET k == CHOOSE k \in ks : \A x \in ks \ {k} : lexLess(k, x)
       IN <<k>> \o sorted(ks \ {k})

\* seq[:i] and seq[i:] of a Python list
clip(seq, i) ==
  IF i < 0 THEN max(Len(seq) + i, 0) ELSE IF i > Len(seq) THEN Len(seq) ELSE i
sliceTo(seq, i) == SubSeq(seq, 1, clip(seq, i))
sliceFrom(seq, i) == SubSeq(seq, clip(seq, i) + 1, Len(seq))

\* cPickle.dumps(None)
PICKLED_NONE == <<"N", ".">>

\* save: the text written for a cell that is a string, a number or else
\* pickled
cellText(cell) ==
  IF isNumber(cell) THEN str(cell) ELSE IF cell = NONE THEN PICKLED_NONE ELSE cell

\* save: the line of a data row, without the auto-ID column when skip >= 0
saveLine(row, skip) ==
  LET kept == SelectSeq(range(0, Len(row)), LAMBDA col : col # skip)
  IN [n \in 1..Len(kept) |-> cellText(row[kept[n] + 1])]

\* Pysheet.save(output, delimiter): the rows handed to writer.writerows, or
\* the exception raised
save(t) ==
  LET r == t.rows
      idc == t.idColumn
      hdr == r[HEADERS_ID]
      keys == sorted(DOMAIN r)
      skipAutoID == hdr[pos(hdr, idc)] = AUTO_ID_HEADER
      header == IF skipAutoID THEN sliceTo(hdr, idc) \o sliceFrom(hdr, idc + 1) ELSE hdr
      data == SelectSeq(keys, LAMBDA k : k # HEADERS_ID)
  IN IF ~hasHeaders(r) THEN Raised("KeyError", NONE)
     ELSE IF ~validIndex(hdr, idc) THEN Raised("IndexError", NONE)
     ELSE Returned(<<header>> \o
                   [n \in 1..Len(data) |->
                      saveLine(r[data[n]], IF skipAutoID THEN pos(hdr, idc) - 1 ELSE -1)])

\* csv.writer: a field is quoted when it holds the delimiter, a quote or a
\* line end, and its quotes are doubled
RECURSIVE doubled(_)
doubled(f) ==
  IF f = <<>> THEN <<>>
  ELSE (IF f[1] = "\"" THEN <<"\"", "\"">> ELSE <<f[1]>>) \o doubled(Tail(f))
csvField(f) ==
  LET text == IF f = NONE THEN <<>> ELSE str(f)
  IN IF \E i \in 1..Len(text) : text[i] \in {",", "\"", "\n", "\r"}
     THEN <<"\"">> \o doubled(text) \o <<"\"">>
     ELSE text

\* csv.writer.writerow(row): the record without its line end; a row that is
\* one empty field is written as a pair of quotes
RECURSIVE csvJoin(_)
csvJoin(fields) ==
  IF fields = <<>> THEN <<>>
  ELSE IF Len(fields) = 1 THEN fields[1]
  ELSE fields[1] \o <<",">> \o csvJoin(Tail(fields))
writerow(row) ==
  IF row = <<<<>>>> THEN <<"\"", "\"">>
  ELSE csvJoin([n \in 1..Len(row) |-> csvField(row[n])])

\* csv.reader on one record: st is the state of the parser (the fields
\* read, the field being read, whether inside quotes)
RECURSIVE readFields(_, _, _, _, _)
readFields(text, n, fields, field, quoted) ==
  IF n > Len(text) THEN Append(fields, field)
  ELSE IF quoted
  THEN IF text[n] = "\"" /\ n < Len(text) /\ text[n + 1] = "\""
       THEN readFields(text, n + 2, fields, Append(field, "\""), TRUE)
       ELSE IF text[n] = "\"" THEN readFields(text, n + 1, fields, field, FALSE)
       ELSE readFields(text, n + 1, fields, Append(field, text[n]), TRUE)
  ELSE IF text[n] = "," THEN readFields(text, n + 1, Append(fields, field), <<>>, FALSE)
  ELSE IF text[n] = "\"" /\ field = <<>> THEN readFields(text, n + 1, fields, field, TRUE)
  ELSE readFields(text, n + 1, fields, Append(field, text[n]), FALSE)
readrow(text) == IF text = <<>> THEN <<>> ELSE readFields(text, 1, <<>>, <<>>, FALSE)

\* the rows csv.reader yields for the file writer.writerows(lines) wrote
reread(lines) == [n \in 1..Len(lines) |-> readrow(writerow(lines[n]))]

\* t.save(f) followed by Pysheet(f, idColumn=idc): the table is written and
\* a new table is constructed from the file, with the ID column of the
\* table (-1, for automatic IDs, when the ID column holds automatic IDs)
reloaded(t) ==
  LET saved == save(t)
      hdr == t.rows[HEADERS_ID]
      idc == IF hdr[pos(hdr, t.idColumn)] = AUTO_ID_HEADER THEN -1 ELSE t.idColumn
      res == load(Table(clear, 0), 2, reread(saved.val), <<idc>>, FALSE)
  IN IF saved.exc # ""
     THEN [rows |-> t.rows, idColumn |-> t.idColumn, minLen |-> 2, exc |-> saved.exc]
     ELSE res

Q == <<"a", ",", "\"", "b">>

\* a sheet with a delimiter and a quote in a cell
Sheet12 == << <<ID, H1>>, << <<"1">>, Q >>, << <<"2">>, <<>> >> >>

SaveConstructions ==
  { <<Sheet1, 0, FALSE>>, <<Sheet1, -1, FALSE>>, <<Sheet1, 0, TRUE>>, <<Sheet2, 0, FALSE>>,
    <<Sheet5, 1, FALSE>>, <<Sheet6, 0, FALSE>>, <<Sheet12, 0, FALSE>> }

Reload ==
  /\ calls < MaxCalls
  /\ LET res == reloaded(self)
     IN /\ Call([name |-> "reload"], res)
        /\ MIN_LINE_LEN' = res.minLen
        /\ UNCHANGED <<cellVars, lockVars>>

InitSave == Constructed(SaveConstructions) /\ InitCell /\ InitLock

NextSave == AddCell \/ Reload

SpecSave == InitSave /\ [][NextSave]_vars

\* the columns of the table t that do not hold automatic IDs, as 0-based
\* indexes
nonSynthetic(t) ==
  SelectSeq(range(0, len(t.rows)), LAMBDA c : getHeaders(t.rows)[c + 1] # AUTO_ID_HEADER)

\* a cell as the round trip compares it: a number by its string form
shown(cell) == IF isNumber(cell) THEN str(cell) ELSE cell

\* the ID of the data row k of the table t
idIn(t, k) == shown(t.rows[k][pos(t.rows[k], t.idColumn)])

\* the cells of the data row k of the table t in its non-synthetic columns
cellsIn(t, k) ==
  [n \in 1..Len(nonSynthetic(t)) |-> shown(t.rows[k][nonSynthetic(t)[n] + 1])]

\* the headers of the non-synthetic columns of the table t
headersIn(t) ==
  [n \in 1..Len(nonSynthetic(t)) |-> getHeaders(t.rows)[nonSynthetic(t)[n] + 1]]

\* C24: saving any table and loading the written rows again with the same
\* delimiter and ID column yields the same set of row IDs, for every row and
\* every non-synthetic column the same cell value (numbers compared by
\* their string form), and the same headers.
C24_RoundTrip ==
  op.name = "reload" =>
    /\ raised = ""
    /\ headersIn(self) = headersIn(pre)
    /\ {idIn(self, k) : k \in dataKeys(rows)} = {idIn(pre, k) : k \in dataKeys(pre.rows)}
    /\ \A k \in dataKeys(pre.rows) :
         \E k2 \in dataKeys(rows) :
           /\ idIn(self, k2) = idIn(pre, k)
           /\ cellsIn(self, k2) = cellsIn(pre, k)

-----------------------------------------------------------------------------
(* Locking *)

NextLock ==
  \/ \E p \in Procs : Step(p)
  \/ Expire

InitProcs ==
  /\ rows = clear
  /\ idColumn = 0
  /\ MIN_LINE_LEN = 2
  /\ calls = 0
  /\ op = Idle
  /\ before = [op |-> Idle, raised |-> ""]
  /\ ret = NONE
  /\ pre = Table(clear, 0)
  /\ raised = ""
  /\ InitCell
  /\ InitLock

SpecLock == InitProcs /\ [][NextLock]_vars

\* the scheduler lets every process take its next step
SpecLockFair == SpecLock /\ \A p \in Procs : WF_vars(Step(p))

\* the process p is between 'lock acquired' and 'lock released'
holding(p) == pc[p] \in {"load", "save", "release"} /\ lock(p)

\* C25: among the processes run with the lock option on the same output,
\* under every interleaving of their lock-file checks, writes, read-backs
\* and removals, at most one process at a time is between 'lock acquired'
\* and 'lock released'.
C25_MutualExclusion ==
  \A p, q \in Procs : (holding(p) /\ holding(q)) => p = q

\* every process was started with the lock option, has terminated, and
\* none timed out
allSaved == \A p \in Procs : pc[p] = "done" /\ counter[p] < timeoutSec

\* C26: when the processes are started concurrently, each reading the same
\* file, writing one cell for a row of its own and saving back to that file
\* with the lock option, and none of them times out, the final file
\* contains all the written cells.
C26_NoLostUpdate ==
  allSaved => dataFile = Procs

\* every process has terminated
allTerminated == \A p \in Procs : pc[p] \in {"done", "exit"}

\* the step removes the lock file while a process that did not take the
\* step holds the lock
removesHeld ==
  /\ lockFile.exists
  /\ ~lockFile'.exists
  /\ \E p, q \in Procs : p # q /\ pc'[p] # pc[p] /\ holding(q)

\* C27: every process that acquired the lock removes the lock file before
\* it terminates, also when its table operation ends with an error, so once
\* all processes have terminated the lock file does not exist; and a
\* process never removes a lock file currently held by another process.
C27_LockReleased ==
  /\ [](allTerminated => ~lockFile.exists)
  /\ [][~removesHeld]_vars

\* the process p waited until its counter reached the timeout
timedOut(p) == counter[p] >= timeoutSec

\* the process p is waiting for the lock
waiting(p) == pc[p] \in {"while", "open", "read"}

\* C28: a process whose accumulated wait reaches the timeout without
\* acquiring the lock writes its result to the output name suffixed with
\* its process id, never writes the originally requested output file and
\* does not remove the lock file; every waiting process eventually either
\* acquires the lock or takes this timeout path.
C28_Timeout ==
  /\ [](\A p \in Procs : (timedOut(p) /\ savedTo[p] # "") => savedTo[p] = "out.pid")
  /\ [][\A p \in Procs :
          (timedOut(p) /\ pc'[p] # pc[p]) => (dataFile' = dataFile /\ lockFile' = lockFile)]_vars
  /\ \A p \in Procs : waiting(p) ~> (pc[p] = "load")

C28_Witness ==
  \E p \in Procs : timedOut(p) /\ pc[p] = "done" /\ savedTo[p] = "out.pid" /\ lockFile.exists

-----------------------------------------------------------------------------
(* Keys and IDs *)

\* the operations that change the rows or the keys they are stored under
keyed == {"load", "addCell", "removeCell", "insertColumn", "removeColumns", "rename",
          "contract"}

\* the ID the row stored under k carries: its cell at the ID column, blank
\* when the row does not reach that far
idCell(t, k) ==
  LET row == t.rows[k]
      c == pos(row, t.idColumn)
  IN IF c \in 1..Len(row) THEN row[c] ELSE BLANK_VALUE

\* every data row of t is stored under the normalized ID it carries
keysAreIds(t) == \A k \in dataKeys(t.rows) : k = clean(idCell(t, k))

\* C29: every data row is stored under the key equal to the normalized
\* value of its own cell at idColumn, and load, addCell, removeCell,
\* insertColumn, removeColumns, rename and contract keep it so, also addCell
\* on a new key when idColumn is not 0 and addCell writing into the ID
\* column.
C29_KeyIdConsistency ==
  (op.name \in keyed /\ keysAreIds(pre)) => keysAreIds(self)

\* C30: contract loses no row: for every table and merge mode there are as
\* many data rows after contract as before, also when folding a duplicate of
\* the ID column changes ID values and re-keys rows.
C30_ContractKeepsRows ==
  op.name = "contract" => Cardinality(dataKeys(rows)) = Cardinality(dataKeys(pre.rows))

====
